---- MODULE Spec2Model ----
(***************************************************************************)
(* The Optimism transaction-lifecycle handler of revm                      *)
(* (crates/revm/src/optimism/handler_register.rs) as a state machine.      *)
(*                                                                         *)
(* One transaction at a time is driven through the handler slots in the    *)
(* order validate_env, validate_tx_against_state, deduct_caller,           *)
(* execution, last_frame_return, refund, reimburse_caller,                 *)
(* reward_beneficiary, output, end, clear.  pc names the slot that runs    *)
(* next.  Every handler is one action.                                     *)
(*                                                                         *)
(* Integer widths are scaled: U256 and u64 keep their order (u64 < U256)   *)
(* and their saturating / checked / wrapping behaviour, with maxima         *)
(* U64_MAX < U256_MAX small enough for TLC's integers.                      *)
(***************************************************************************)
EXTENDS Integers, Sequences, FiniteSets, TLC

(* ------------------------------ widths -------------------------------- *)
U64_MAX == 15
U256_MAX == 255

(* ------------------------------ options ------------------------------- *)
\* Option<T>: None is the empty sequence, Some(x) the one-element sequence.
None == <<>>
Some(x) == <<x>>
IsSome(o) == o # <<>>
IsNone(o) == o = <<>>
Unwrap(o) == o[1]
UnwrapOr(o, d) == IF o = <<>> THEN d ELSE o[1]

(* ----------------------------- arithmetic ----------------------------- *)
Min(a, b) == IF a < b THEN a ELSE b

\* U256::checked_mul / checked_add: None on overflow.
CheckedMul(a, b) == IF a * b > U256_MAX THEN None ELSE Some(a * b)

CheckedAdd(a, b) == IF a + b > U256_MAX THEN None ELSE Some(a + b)

\* Option::and_then
AndThen(o, F(_)) == IF o = <<>> THEN <<>> ELSE F(o[1])

\* U256 saturating / wrapping operations.
SatAdd(a, b) == Min(a + b, U256_MAX)
SatSub(a, b) == IF a < b THEN 0 ELSE a - b
SatMul(a, b) == Min(a * b, U256_MAX)
WrapAdd(a, b) == (a + b) % (U256_MAX + 1)

\* u64::saturating_add
SatAddU64(a, b) == Min(a + b, U64_MAX)

(* ------------------------------- forks -------------------------------- *)
\* SpecId in activation order; SPEC::enabled(f) is "f is at or before SPEC".
ForkOrder ==
    << "BERLIN", "LONDON", "MERGE", "BEDROCK", "REGOLITH", "SHANGHAI", "CANYON",
       "CANCUN", "ECOTONE", "FJORD", "GRANITE", "PRAGUE", "ISTHMUS" >>

Rank(f) == CHOOSE i \in 1..Len(ForkOrder) : ForkOrder[i] = f

Enabled(spec, fork) == Rank(fork) <= Rank(spec)

\* The specs the handler is instantiated with in this model.
SpecIds == {"BERLIN", "BEDROCK", "REGOLITH", "ECOTONE", "ISTHMUS"}

(* ------------------------------ results ------------------------------- *)
\* Result<(), EVMError>: the value a handler returns.
OkUnit == [tag |-> "Ok"]
\* EVMError::Transaction(InvalidTransaction::kind), ::Header, ::Database, ::Custom
Err(class, kind) == [tag |-> "Err", class |-> class, kind |-> kind]
ErrLackOfFund(fee, balance) ==
    [tag |-> "Err", class |-> "Transaction", kind |-> "LackOfFundForMaxFee",
     fee |-> fee, balance |-> balance]
ErrNonce(kind, tx, state) ==
    [tag |-> "Err", class |-> "Transaction", kind |-> kind, tx |-> tx, state |-> state]
IsOk(r) == r.tag = "Ok"
IsErr(r) == r.tag = "Err"

(* ----------------------------- accounts ------------------------------- *)
L1_FEE_RECIPIENT == "L1_FEE_RECIPIENT"
BASE_FEE_RECIPIENT == "BASE_FEE_RECIPIENT"
OPERATOR_FEE_RECIPIENT == "OPERATOR_FEE_RECIPIENT"
Caller == "caller"
Coinbase == "coinbase"
Addresses == {Caller, Coinbase, L1_FEE_RECIPIENT, BASE_FEE_RECIPIENT, OPERATOR_FEE_RECIPIENT}

\* AccountInfo::default(): what unwrap_or_default() yields for an absent account.
DefaultInfo == [balance |-> 0, nonce |-> 0, code |-> "empty"]

\* Account::from(info): a journal account, not yet touched.
AccountFrom(info) ==
    [balance |-> info.balance, nonce |-> info.nonce, code |-> info.code, touched |-> FALSE]

mark_touch(acc) == [acc EXCEPT !.touched = TRUE]

\* Bytecode::is_empty / Bytecode::is_eip7702 of the caller's code.
CodeIsEmpty(code) == code = "empty"
CodeIsEip7702(code) == code = "eip7702"

\* The journal with nothing loaded.
EmptyJournal == [a \in Addresses |-> None]

\* Database::basic(address): the raw account, None when absent.
DbBasic(d, a) == d.accounts[a]

\* JournaledState::load_account / load_code: an account already in the journal
\* is returned as it is; otherwise it is read from the database (an absent
\* account loads as the default account).  db_ok = FALSE is a failing read.
NeedsDb(jr, a) == IsNone(jr[a])
LoadAccount(jr, d, a) ==
    IF IsSome(jr[a]) THEN jr
    ELSE [jr EXCEPT ![a] = Some(AccountFrom(UnwrapOr(DbBasic(d, a), DefaultInfo)))]

(* ---------------------------- L1BlockInfo ----------------------------- *)
\* The divisor of the operator fee scalar (scaled with the integer widths).
OPERATOR_FEE_SCALAR_DECIMAL == 2

\* L1BlockInfo::try_fetch: the fee parameters stored in the L1 block predeploy.
try_fetch(d, spec) == d.l1block

\* L1BlockInfo::calculate_tx_l1_cost: zero for an empty envelope, else the
\* envelope's data gas priced at the L1 base fee.  An envelope is modelled by
\* its data gas.
calculate_tx_l1_cost(info, input, spec) ==
    IF input = 0 THEN 0 ELSE SatMul(input, info.l1_base_fee)

\* L1BlockInfo::operator_fee_charge: scalar * gas / 1e6 + constant from Isthmus
\* on, zero before.
operator_fee_charge_inner(info, gas) ==
    SatAdd(SatMul(gas, info.operator_fee_scalar) \div OPERATOR_FEE_SCALAR_DECIMAL,
           info.operator_fee_constant)

operator_fee_charge(info, input, gas, spec) ==
    IF ~Enabled(spec, "ISTHMUS") THEN 0
    ELSE operator_fee_charge_inner(info, gas)

(* --------------------------- validate_env ----------------------------- *)
\* Env::validate_block_env and Env::validate_tx: their verdicts are fields of
\* the modelled env (block.valid, tx.valid).
validate_block_env(spec, e) ==
    IF e.block.valid THEN OkUnit ELSE Err("Header", "InvalidBlockEnv")

validate_tx(spec, e) ==
    IF e.tx.valid THEN OkUnit ELSE Err("Transaction", "InvalidTxEnv")

is_deposit(e) == IsSome(e.tx.optimism.source_hash)

is_system_tx(e) == UnwrapOr(e.tx.optimism.is_system_transaction, FALSE)

MutValidateEnvBlockFirst(spec, e) ==
    IF IsErr(validate_block_env(spec, e)) THEN validate_block_env(spec, e)
    ELSE IF is_deposit(e) THEN OkUnit
    ELSE IF is_system_tx(e) /\ Enabled(spec, "REGOLITH")
         THEN Err("Transaction", "DepositSystemTxPostRegolith")
    ELSE validate_tx(spec, e)

MutValidateEnvSysAlways(spec, e) ==
    IF is_deposit(e) THEN OkUnit
    ELSE IF IsErr(validate_block_env(spec, e)) THEN validate_block_env(spec, e)
    ELSE IF is_system_tx(e) THEN Err("Transaction", "DepositSystemTxPostRegolith")
    ELSE validate_tx(spec, e)

validate_env(spec, e) ==
    IF is_deposit(e) THEN OkUnit
    ELSE IF IsErr(validate_block_env(spec, e)) THEN validate_block_env(spec, e)
    ELSE IF is_system_tx(e) /\ Enabled(spec, "REGOLITH")
         THEN Err("Transaction", "DepositSystemTxPostRegolith")
    ELSE validate_tx(spec, e)

(* --------------------- validate_tx_against_state ---------------------- *)
\* Env::calc_max_data_fee().unwrap_or_default(): zero unless a blob transaction.
calc_max_data_fee(e) == e.tx.max_data_fee

\* The pre-flight total with every step wrapping modulo 2^256 instead of checked.
MutBalanceCheckWrapping(spec, e, tx_l1_cost, op_fee) ==
    LET base == e.tx.gas_limit * e.tx.gas_price + e.tx.value + tx_l1_cost + op_fee
        all == IF Enabled(spec, "CANCUN") THEN base + calc_max_data_fee(e) ELSE base
    IN  Some(all % (U256_MAX + 1))

\* The pre-flight total without the L1 cost and the operator fee.
MutBalanceCheckNoFees(spec, e, tx_l1_cost, op_fee) ==
    LET base ==
            AndThen(CheckedMul(e.tx.gas_limit, e.tx.gas_price),
                    LAMBDA gas_cost : CheckedAdd(gas_cost, e.tx.value))
    IN  IF Enabled(spec, "CANCUN")
        THEN AndThen(base, LAMBDA b : CheckedAdd(b, calc_max_data_fee(e)))
        ELSE base

\* balance_check: gas_limit * gas_price + value + l1_cost + operator_fee_charge
\* (+ max data fee from Cancun on), None when a step overflows.
balance_check(spec, e, tx_l1_cost, op_fee) ==
    LET base ==
            AndThen(
                AndThen(
                    AndThen(CheckedMul(e.tx.gas_limit, e.tx.gas_price),
                            LAMBDA gas_cost : CheckedAdd(gas_cost, e.tx.value)),
                    LAMBDA total_cost : CheckedAdd(total_cost, tx_l1_cost)),
                LAMBDA total_cost : CheckedAdd(total_cost, op_fee))
    IN  IF Enabled(spec, "CANCUN")
        THEN AndThen(base, LAMBDA b : CheckedAdd(b, calc_max_data_fee(e)))
        ELSE base

\* The nonce check: None when it passes or tx.nonce is not given.
nonce_check(e, state) ==
    IF IsNone(e.tx.nonce) THEN None
    ELSE LET tx == Unwrap(e.tx.nonce) IN
         IF tx > state THEN Some(ErrNonce("NonceTooHigh", tx, state))
         ELSE IF tx < state THEN Some(ErrNonce("NonceTooLow", tx, state))
         ELSE None

\* The funds check with the balance_check_disabled override ignored.
MutFundsCheckNoOverride(e, total, account) ==
    IF total > account.balance
    THEN [ret |-> ErrLackOfFund(total, account.balance), account |-> account]
    ELSE [ret |-> OkUnit, account |-> account]

\* The comparison of the total with the balance: the verdict and the account.
funds_check(e, total, account) ==
    IF total > account.balance
    THEN IF e.cfg.balance_check_disabled
         THEN [ret |-> OkUnit, account |-> [account EXCEPT !.balance = total]]
         ELSE [ret |-> ErrLackOfFund(total, account.balance), account |-> account]
    ELSE [ret |-> OkUnit, account |-> account]

\* validate_tx_against_state with a deposit validated like any transaction.
MutValidateStateNoDepositBypass(spec, e, l1, jr, d, fetch_ok, load_ok) ==
    IF IsNone(l1) /\ ~fetch_ok
    THEN [ret |-> Err("Database", "try_fetch"), l1 |-> l1, journal |-> jr]
    ELSE [ret |-> OkUnit,
          l1 |-> IF IsNone(l1) THEN Some(try_fetch(d, spec)) ELSE l1,
          journal |-> LoadAccount(jr, d, Caller)]

\* validate_tx_against_state with the nonce checked before EIP-3607.
MutValidateStateNonceFirst(spec, e, l1, jr, d, fetch_ok, load_ok) ==
    IF is_deposit(e) THEN [ret |-> OkUnit, l1 |-> l1, journal |-> jr]
    ELSE IF IsNone(l1) /\ ~fetch_ok
    THEN [ret |-> Err("Database", "try_fetch"), l1 |-> l1, journal |-> jr]
    ELSE
    LET l1n == IF IsNone(l1) THEN Some(try_fetch(d, spec)) ELSE l1 IN
    IF NeedsDb(jr, Caller) /\ ~load_ok
    THEN [ret |-> Err("Database", "load_code"), l1 |-> l1n, journal |-> jr]
    ELSE
    LET jr1 == LoadAccount(jr, d, Caller)
        account == Unwrap(jr1[Caller])
        out(r) == [ret |-> r, l1 |-> l1n, journal |-> jr1]
    IN
    IF IsSome(nonce_check(e, account.nonce))
    THEN out(Unwrap(nonce_check(e, account.nonce)))
    ELSE IF /\ ~e.cfg.eip3607_disabled
            /\ ~CodeIsEmpty(account.code)
            /\ ~CodeIsEip7702(account.code)
    THEN out(Err("Transaction", "RejectCallerWithCode"))
    ELSE IF IsNone(e.tx.optimism.enveloped_tx)
    THEN out(Err("Custom", "[OPTIMISM] Failed to load enveloped transaction."))
    ELSE
    LET enveloped_tx == Unwrap(e.tx.optimism.enveloped_tx)
        tx_l1_cost == calculate_tx_l1_cost(Unwrap(l1n), enveloped_tx, spec)
        op_fee == operator_fee_charge(Unwrap(l1n), enveloped_tx, e.tx.gas_limit, spec)
        total == balance_check(spec, e, tx_l1_cost, op_fee)
    IN
    IF IsNone(total)
    THEN out(Err("Transaction", "OverflowPaymentInTransaction"))
    ELSE
    LET f == funds_check(e, Unwrap(total), account) IN
    [ret |-> f.ret, l1 |-> l1n, journal |-> [jr1 EXCEPT ![Caller] = Some(f.account)]]

\* validate_tx_against_state that computes the fees but does not keep the
\* fetched L1BlockInfo.
MutValidateStateNoCache(spec, e, l1, jr, d, fetch_ok, load_ok) ==
    IF is_deposit(e) THEN [ret |-> OkUnit, l1 |-> l1, journal |-> jr]
    ELSE IF IsNone(l1) /\ ~fetch_ok
    THEN [ret |-> Err("Database", "try_fetch"), l1 |-> l1, journal |-> jr]
    ELSE
    LET l1n == IF IsNone(l1) THEN Some(try_fetch(d, spec)) ELSE l1 IN
    IF NeedsDb(jr, Caller) /\ ~load_ok
    THEN [ret |-> Err("Database", "load_code"), l1 |-> l1, journal |-> jr]
    ELSE
    LET jr1 == LoadAccount(jr, d, Caller)
        account == Unwrap(jr1[Caller])
        out(r) == [ret |-> r, l1 |-> l1, journal |-> jr1]
    IN
    IF /\ ~e.cfg.eip3607_disabled
       /\ ~CodeIsEmpty(account.code)
       /\ ~CodeIsEip7702(account.code)
    THEN out(Err("Transaction", "RejectCallerWithCode"))
    ELSE IF IsSome(nonce_check(e, account.nonce))
    THEN out(Unwrap(nonce_check(e, account.nonce)))
    ELSE IF IsNone(e.tx.optimism.enveloped_tx)
    THEN out(Err("Custom", "[OPTIMISM] Failed to load enveloped transaction."))
    ELSE
    LET enveloped_tx == Unwrap(e.tx.optimism.enveloped_tx)
        tx_l1_cost == calculate_tx_l1_cost(Unwrap(l1n), enveloped_tx, spec)
        op_fee == operator_fee_charge(Unwrap(l1n), enveloped_tx, e.tx.gas_limit, spec)
        total == balance_check(spec, e, tx_l1_cost, op_fee)
    IN
    IF IsNone(total)
    THEN out(Err("Transaction", "OverflowPaymentInTransaction"))
    ELSE
    LET f == funds_check(e, Unwrap(total), account) IN
    [ret |-> f.ret, l1 |-> l1, journal |-> [jr1 EXCEPT ![Caller] = Some(f.account)]]

\* validate_tx_against_state: the returned value, the L1BlockInfo cache and the
\* journal after the call.  fetch_ok and load_ok are the outcomes of the two
\* database reads (FALSE: the read fails).
validate_tx_against_state(spec, e, l1, jr, d, fetch_ok, load_ok) ==
    IF is_deposit(e) THEN [ret |-> OkUnit, l1 |-> l1, journal |-> jr]
    ELSE IF IsNone(l1) /\ ~fetch_ok
    THEN [ret |-> Err("Database", "try_fetch"), l1 |-> l1, journal |-> jr]
    ELSE
    LET l1n == IF IsNone(l1) THEN Some(try_fetch(d, spec)) ELSE l1 IN
    IF NeedsDb(jr, Caller) /\ ~load_ok
    THEN [ret |-> Err("Database", "load_code"), l1 |-> l1n, journal |-> jr]
    ELSE
    LET jr1 == LoadAccount(jr, d, Caller)
        account == Unwrap(jr1[Caller])
        out(r) == [ret |-> r, l1 |-> l1n, journal |-> jr1]
    IN
    IF /\ ~e.cfg.eip3607_disabled
       /\ ~CodeIsEmpty(account.code)
       /\ ~CodeIsEip7702(account.code)
    THEN out(Err("Transaction", "RejectCallerWithCode"))
    ELSE IF IsSome(nonce_check(e, account.nonce))
    THEN out(Unwrap(nonce_check(e, account.nonce)))
    ELSE IF IsNone(e.tx.optimism.enveloped_tx)
    THEN out(Err("Custom", "[OPTIMISM] Failed to load enveloped transaction."))
    ELSE
    LET enveloped_tx == Unwrap(e.tx.optimism.enveloped_tx)
        tx_l1_cost == calculate_tx_l1_cost(Unwrap(l1n), enveloped_tx, spec)
        op_fee == operator_fee_charge(Unwrap(l1n), enveloped_tx, e.tx.gas_limit, spec)
        total == balance_check(spec, e, tx_l1_cost, op_fee)
    IN
    IF IsNone(total)
    THEN out(Err("Transaction", "OverflowPaymentInTransaction"))
    ELSE
    LET f == funds_check(e, Unwrap(total), account) IN
    [ret |-> f.ret, l1 |-> l1n, journal |-> [jr1 EXCEPT ![Caller] = Some(f.account)]]

(* -------------------------------- Gas --------------------------------- *)
\* Gas::new_spent, Gas::spent, Gas::erase_cost, Gas::record_refund,
\* Gas::set_final_refund.
NewGas(limit, remaining, refunded) ==
    [limit |-> limit, remaining |-> remaining, refunded |-> refunded]
new_spent(limit) == NewGas(limit, 0, 0)
spent(gas) == gas.limit - gas.remaining
erase_cost(gas, n) == [gas EXCEPT !.remaining = gas.remaining + n]
record_refund(gas, n) == [gas EXCEPT !.refunded = gas.refunded + n]
max_refund_quotient(is_london) == IF is_london THEN 5 ELSE 2
set_final_refund(gas, is_london) ==
    [gas EXCEPT !.refunded = Min(gas.refunded, spent(gas) \div max_refund_quotient(is_london))]

\* The instruction results of the model: return_ok!(), return_revert!(), halts.
ReturnOk == {"Stop"}
ReturnRevert == {"Revert"}
ReturnHalt == {"OutOfGas"}
InstructionResults == ReturnOk \cup ReturnRevert \cup ReturnHalt

(* --------------------------- deduct_caller ---------------------------- *)
\* Env::effective_gas_price and Env::calc_data_fee.
effective_gas_price(e) == e.tx.gas_price
calc_data_fee(e) == e.tx.max_data_fee

\* mainnet::deduct_caller_inner: subtracts the gas cost (plus the blob fee from
\* Cancun on) and the value, saturating; bumps the nonce; touches the account.
deduct_caller_inner(spec, acc, e) ==
    LET gas_cost0 == SatMul(e.tx.gas_limit, effective_gas_price(e))
        gas_cost == IF Enabled(spec, "CANCUN")
                    THEN SatAdd(gas_cost0, calc_data_fee(e)) ELSE gas_cost0
    IN  [acc EXCEPT !.balance = SatSub(SatSub(acc.balance, gas_cost), e.tx.value),
                    !.nonce = SatAddU64(acc.nonce, 1),
                    !.touched = TRUE]

\* A panic (a failed expect): the thread unwinds, no value is returned.
Panic(msg) == [tag |-> "Panic", class |-> "Panic", kind |-> msg]
IsPanic(r) == r.tag = "Panic"

\* deduct_caller charging a deposit the L1 cost and the operator fee as well.
MutDeductCallerDepositPays(spec, e, l1, jr, d, load_ok) ==
    IF NeedsDb(jr, Caller) /\ ~load_ok
    THEN [ret |-> Err("Database", "load_account"), journal |-> jr]
    ELSE
    LET jr1 == LoadAccount(jr, d, Caller)
        acc0 == Unwrap(jr1[Caller])
        acc1 == [acc0 EXCEPT !.balance = WrapAdd(acc0.balance, UnwrapOr(e.tx.optimism.mint, 0))]
        acc2 == deduct_caller_inner(spec, acc1, e)
        jr2 == [jr1 EXCEPT ![Caller] = Some(acc2)]
    IN
    IF IsNone(e.tx.optimism.enveloped_tx)
    THEN IF is_deposit(e) THEN [ret |-> OkUnit, journal |-> jr2]
         ELSE [ret |-> Err("Custom", "[OPTIMISM] Failed to load enveloped transaction."),
               journal |-> jr2]
    ELSE IF IsNone(l1)
    THEN [ret |-> Panic("L1BlockInfo should be loaded"), journal |-> jr2]
    ELSE
    LET enveloped_tx == Unwrap(e.tx.optimism.enveloped_tx)
        tx_l1_cost == calculate_tx_l1_cost(Unwrap(l1), enveloped_tx, spec)
        op_fee == operator_fee_charge(Unwrap(l1), enveloped_tx, e.tx.gas_limit, spec)
        acc3 == [acc2 EXCEPT !.balance = SatSub(SatSub(acc2.balance, tx_l1_cost), op_fee)]
    IN  [ret |-> OkUnit, journal |-> [jr1 EXCEPT ![Caller] = Some(acc3)]]

\* deduct_caller that forgets the operator fee.
MutDeductCallerNoOperatorFee(spec, e, l1, jr, d, load_ok) ==
    IF NeedsDb(jr, Caller) /\ ~load_ok
    THEN [ret |-> Err("Database", "load_account"), journal |-> jr]
    ELSE
    LET jr1 == LoadAccount(jr, d, Caller)
        acc0 == Unwrap(jr1[Caller])
        acc1 == [acc0 EXCEPT !.balance = WrapAdd(acc0.balance, UnwrapOr(e.tx.optimism.mint, 0))]
        acc2 == deduct_caller_inner(spec, acc1, e)
        jr2 == [jr1 EXCEPT ![Caller] = Some(acc2)]
    IN
    IF is_deposit(e) THEN [ret |-> OkUnit, journal |-> jr2]
    ELSE IF IsNone(e.tx.optimism.enveloped_tx)
    THEN [ret |-> Err("Custom", "[OPTIMISM] Failed to load enveloped transaction."),
          journal |-> jr2]
    ELSE IF IsNone(l1)
    THEN [ret |-> Panic("L1BlockInfo should be loaded"), journal |-> jr2]
    ELSE
    LET enveloped_tx == Unwrap(e.tx.optimism.enveloped_tx)
        tx_l1_cost == calculate_tx_l1_cost(Unwrap(l1), enveloped_tx, spec)
        acc3 == [acc2 EXCEPT !.balance = SatSub(acc2.balance, tx_l1_cost)]
    IN  [ret |-> OkUnit, journal |-> [jr1 EXCEPT ![Caller] = Some(acc3)]]

\* deduct_caller: the returned value and the journal after the call.
deduct_caller(spec, e, l1, jr, d, load_ok) ==
    IF NeedsDb(jr, Caller) /\ ~load_ok
    THEN [ret |-> Err("Database", "load_account"), journal |-> jr]
    ELSE
    LET jr1 == LoadAccount(jr, d, Caller)
        acc0 == Unwrap(jr1[Caller])
        acc1 == IF IsSome(e.tx.optimism.mint)
                THEN [acc0 EXCEPT !.balance = WrapAdd(acc0.balance, Unwrap(e.tx.optimism.mint))]
                ELSE acc0
        acc2 == deduct_caller_inner(spec, acc1, e)
        jr2 == [jr1 EXCEPT ![Caller] = Some(acc2)]
    IN
    IF is_deposit(e) THEN [ret |-> OkUnit, journal |-> jr2]
    ELSE IF IsNone(e.tx.optimism.enveloped_tx)
    THEN [ret |-> Err("Custom", "[OPTIMISM] Failed to load enveloped transaction."),
          journal |-> jr2]
    ELSE IF IsNone(l1)
    THEN [ret |-> Panic("L1BlockInfo should be loaded"), journal |-> jr2]
    ELSE
    LET enveloped_tx == Unwrap(e.tx.optimism.enveloped_tx)
        tx_l1_cost == calculate_tx_l1_cost(Unwrap(l1), enveloped_tx, spec)
        op_fee == operator_fee_charge(Unwrap(l1), enveloped_tx, e.tx.gas_limit, spec)
        acc3 == [acc2 EXCEPT !.balance = SatSub(SatSub(acc2.balance, tx_l1_cost), op_fee)]
    IN  [ret |-> OkUnit, journal |-> [jr1 EXCEPT ![Caller] = Some(acc3)]]

(* ------------------------- last_frame_return -------------------------- *)
\* last_frame_return that restores the remaining gas of a success but not its refund.
MutLastFrameReturnDropsRefund(spec, e, instruction_result, gas) ==
    LET g0 == new_spent(e.tx.gas_limit)
        is_regolith == Enabled(spec, "REGOLITH")
    IN
    IF instruction_result \in ReturnOk
    THEN IF ~is_deposit(e) \/ is_regolith THEN erase_cost(g0, gas.remaining)
         ELSE IF is_deposit(e) /\ is_system_tx(e) THEN erase_cost(g0, e.tx.gas_limit)
         ELSE g0
    ELSE IF instruction_result \in ReturnRevert
    THEN IF ~is_deposit(e) \/ is_regolith THEN erase_cost(g0, gas.remaining) ELSE g0
    ELSE g0

\* last_frame_return that keeps the refund of a revert.
MutLastFrameReturnRevertKeepsRefund(spec, e, instruction_result, gas) ==
    LET g0 == new_spent(e.tx.gas_limit)
        is_regolith == Enabled(spec, "REGOLITH")
    IN
    IF instruction_result \in ReturnOk \cup ReturnRevert
    THEN IF ~is_deposit(e) \/ is_regolith
         THEN record_refund(erase_cost(g0, gas.remaining), gas.refunded)
         ELSE IF instruction_result \in ReturnOk /\ is_deposit(e) /\ is_system_tx(e)
         THEN erase_cost(g0, e.tx.gas_limit)
         ELSE g0
    ELSE g0

\* last_frame_return that reports the gas of every transaction as normal.
MutLastFrameReturnNoDepositRule(spec, e, instruction_result, gas) ==
    LET g0 == new_spent(e.tx.gas_limit) IN
    IF instruction_result \in ReturnOk
    THEN record_refund(erase_cost(g0, gas.remaining), gas.refunded)
    ELSE IF instruction_result \in ReturnRevert
    THEN erase_cost(g0, gas.remaining)
    ELSE g0

\* last_frame_return without the system-transaction branch.
MutLastFrameReturnNoSystemRule(spec, e, instruction_result, gas) ==
    LET g0 == new_spent(e.tx.gas_limit)
        is_regolith == Enabled(spec, "REGOLITH")
    IN
    IF instruction_result \in ReturnOk
    THEN IF ~is_deposit(e) \/ is_regolith
         THEN record_refund(erase_cost(g0, gas.remaining), gas.refunded)
         ELSE g0
    ELSE IF instruction_result \in ReturnRevert
    THEN IF ~is_deposit(e) \/ is_regolith THEN erase_cost(g0, gas.remaining) ELSE g0
    ELSE g0

\* last_frame_return that hands the remaining gas back on a halt as on a revert.
MutLastFrameReturnHaltAsRevert(spec, e, instruction_result, gas) ==
    LET tx_gas_limit == e.tx.gas_limit
        is_regolith == Enabled(spec, "REGOLITH")
        remaining == gas.remaining
        refunded == gas.refunded
        g0 == new_spent(tx_gas_limit)
    IN
    IF instruction_result \in ReturnOk
    THEN IF ~is_deposit(e) \/ is_regolith
         THEN record_refund(erase_cost(g0, remaining), refunded)
         ELSE IF is_deposit(e) /\ is_system_tx(e)
         THEN erase_cost(g0, tx_gas_limit)
         ELSE g0
    ELSE IF ~is_deposit(e) \/ is_regolith THEN erase_cost(g0, remaining) ELSE g0

\* last_frame_return: the frame's gas after the call.
last_frame_return(spec, e, instruction_result, gas) ==
    LET tx_gas_limit == e.tx.gas_limit
        is_regolith == Enabled(spec, "REGOLITH")
        remaining == gas.remaining
        refunded == gas.refunded
        g0 == new_spent(tx_gas_limit)
    IN
    IF instruction_result \in ReturnOk
    THEN IF ~is_deposit(e) \/ is_regolith
         THEN record_refund(erase_cost(g0, remaining), refunded)
         ELSE IF is_deposit(e) /\ is_system_tx(e)
         THEN erase_cost(g0, tx_gas_limit)
         ELSE g0
    ELSE IF instruction_result \in ReturnRevert
    THEN IF ~is_deposit(e) \/ is_regolith THEN erase_cost(g0, remaining) ELSE g0
    ELSE g0

(* ------------------------------ refund -------------------------------- *)
\* refund that caps with the London quotient on every fork.
MutRefundLondonAlways(spec, e, gas, eip7702) ==
    LET g1 == record_refund(gas, eip7702)
        is_gas_refund_disabled ==
            e.cfg.gas_refund_disabled \/ (is_deposit(e) /\ ~Enabled(spec, "REGOLITH"))
    IN  IF ~is_gas_refund_disabled THEN set_final_refund(g1, TRUE) ELSE g1

\* refund that applies the final cap whether or not refunds are disabled.
MutRefundAlwaysCaps(spec, e, gas, eip7702) ==
    set_final_refund(record_refund(gas, eip7702), Enabled(spec, "LONDON"))

\* refund: the gas after recording the EIP-7702 refund and the final cap.
refund(spec, e, gas, eip7702) ==
    LET g1 == record_refund(gas, eip7702)
        is_regolith == Enabled(spec, "REGOLITH")
        is_gas_refund_disabled ==
            e.cfg.gas_refund_disabled \/ (is_deposit(e) /\ ~is_regolith)
    IN  IF ~is_gas_refund_disabled
        THEN set_final_refund(g1, Enabled(spec, "LONDON"))
        ELSE g1

(* -------------------------- reimburse_caller -------------------------- *)
\* L1BlockInfo::operator_fee_refund: the operator fee charged for the gas limit
\* less the operator fee for the gas used, from Isthmus on.
operator_fee_refund(info, gas, spec) ==
    IF ~Enabled(spec, "ISTHMUS") THEN 0
    ELSE SatSub(operator_fee_charge_inner(info, gas.limit),
                operator_fee_charge_inner(info, gas.limit - (gas.remaining + gas.refunded)))

\* mainnet::reimburse_caller: credits the caller remaining * effective gas price.
mainnet_reimburse_caller(e, acc, gas) ==
    [acc EXCEPT !.balance = SatAdd(acc.balance, SatMul(effective_gas_price(e), gas.remaining))]

\* reimburse_caller that returns the operator fee refund to a deposit as well.
MutReimburseDepositRefund(spec, e, l1, jr, d, gas, load_ok) ==
    IF NeedsDb(jr, Caller) /\ ~load_ok
    THEN [ret |-> Err("Database", "load_account"), journal |-> jr]
    ELSE
    LET jr1 == LoadAccount(jr, d, Caller)
        acc1 == mainnet_reimburse_caller(e, Unwrap(jr1[Caller]), gas)
        jr2 == [jr1 EXCEPT ![Caller] = Some(acc1)]
    IN
    IF IsNone(l1)
    THEN [ret |-> Panic("L1BlockInfo should be loaded"), journal |-> jr2]
    ELSE
    LET acc2 == [acc1 EXCEPT
                    !.balance = SatAdd(acc1.balance, operator_fee_refund(Unwrap(l1), gas, spec))]
    IN  [ret |-> OkUnit, journal |-> [jr1 EXCEPT ![Caller] = Some(acc2)]]

\* reimburse_caller: the returned value and the journal after the call.
reimburse_caller(spec, e, l1, jr, d, gas, load_ok) ==
    IF NeedsDb(jr, Caller) /\ ~load_ok
    THEN [ret |-> Err("Database", "load_account"), journal |-> jr]
    ELSE
    LET jr1 == LoadAccount(jr, d, Caller)
        acc1 == mainnet_reimburse_caller(e, Unwrap(jr1[Caller]), gas)
        jr2 == [jr1 EXCEPT ![Caller] = Some(acc1)]
    IN
    IF is_deposit(e) THEN [ret |-> OkUnit, journal |-> jr2]
    ELSE IF IsNone(l1)
    THEN [ret |-> Panic("L1BlockInfo should be loaded"), journal |-> jr2]
    ELSE
    LET acc2 == [acc1 EXCEPT
                    !.balance = SatAdd(acc1.balance, operator_fee_refund(Unwrap(l1), gas, spec))]
    IN  [ret |-> OkUnit, journal |-> [jr1 EXCEPT ![Caller] = Some(acc2)]]

(* ------------------------- reward_beneficiary ------------------------- *)
\* gas.spent() - gas.refunded() as u64.  When the refund exceeds the gas spent
\* the u64 subtraction overflows: a panic in a build with overflow checks, the
\* wrapped value otherwise.
UsedUnderflows(gas) == gas.refunded > spent(gas)
used(gas) == (spent(gas) - gas.refunded) % (U64_MAX + 1)

\* Credit an account of the journal (loading it first) and mark it touched.
Credit(jr, d, a, amount) ==
    LET acc == Unwrap(LoadAccount(jr, d, a)[a])
    IN  [jr EXCEPT ![a] = Some([acc EXCEPT !.touched = TRUE,
                                           !.balance = WrapAdd(acc.balance, amount)])]

\* mainnet::reward_beneficiary: the coinbase receives the priority fee for the
\* gas used (the effective gas price less the base fee from London on).
coinbase_gas_price(spec, e) ==
    IF Enabled(spec, "LONDON")
    THEN SatSub(effective_gas_price(e), e.block.basefee)
    ELSE effective_gas_price(e)

\* reward_beneficiary paying the operator vault the fee of the whole gas limit.
MutRewardOperatorFeeOnLimit(spec, e, l1, jr, d, gas, fail_at, overflow_checks) ==
    IF is_deposit(e) THEN [ret |-> OkUnit, journal |-> jr]
    ELSE IF NeedsDb(jr, Coinbase) /\ fail_at = 1
    THEN [ret |-> Err("Database", "load_account"), journal |-> jr]
    ELSE
    LET jr1 == Credit(jr, d, Coinbase, SatMul(coinbase_gas_price(spec, e), used(gas))) IN
    IF IsNone(l1) \/ IsNone(e.tx.optimism.enveloped_tx)
    THEN [ret |-> Err("Custom", "[OPTIMISM] Failed to load L1 block information."),
          journal |-> jr1]
    ELSE
    LET enveloped_tx == Unwrap(e.tx.optimism.enveloped_tx)
        jr2 == Credit(jr1, d, L1_FEE_RECIPIENT,
                      calculate_tx_l1_cost(Unwrap(l1), enveloped_tx, spec))
        jr3 == Credit(jr2, d, BASE_FEE_RECIPIENT,
                      (e.block.basefee * used(gas)) % (U256_MAX + 1))
    IN  [ret |-> OkUnit,
         journal |-> Credit(jr3, d, OPERATOR_FEE_RECIPIENT,
                            operator_fee_charge(Unwrap(l1), enveloped_tx, e.tx.gas_limit, spec))]

\* reward_beneficiary that pays the coinbase for a deposit as well.
MutRewardDepositPaysCoinbase(spec, e, l1, jr, d, gas, fail_at, overflow_checks) ==
    IF NeedsDb(jr, Coinbase) /\ fail_at = 1
    THEN [ret |-> Err("Database", "load_account"), journal |-> jr]
    ELSE
    LET jr1 == Credit(jr, d, Coinbase, SatMul(coinbase_gas_price(spec, e), used(gas))) IN
    IF is_deposit(e) THEN [ret |-> OkUnit, journal |-> jr1]
    ELSE IF IsNone(l1) \/ IsNone(e.tx.optimism.enveloped_tx)
    THEN [ret |-> Err("Custom", "[OPTIMISM] Failed to load L1 block information."),
          journal |-> jr1]
    ELSE
    LET enveloped_tx == Unwrap(e.tx.optimism.enveloped_tx)
        jr2 == Credit(jr1, d, L1_FEE_RECIPIENT,
                      calculate_tx_l1_cost(Unwrap(l1), enveloped_tx, spec))
        jr3 == Credit(jr2, d, BASE_FEE_RECIPIENT,
                      (e.block.basefee * used(gas)) % (U256_MAX + 1))
    IN  [ret |-> OkUnit,
         journal |-> Credit(jr3, d, OPERATOR_FEE_RECIPIENT,
                            operator_fee_charge(Unwrap(l1), enveloped_tx, used(gas), spec))]

\* reward_beneficiary that leaves a vault alone when there is nothing to credit.
MutRewardSkipsZeroCredit(spec, e, l1, jr, d, gas, fail_at, overflow_checks) ==
    IF is_deposit(e) THEN [ret |-> OkUnit, journal |-> jr]
    ELSE IF NeedsDb(jr, Coinbase) /\ fail_at = 1
    THEN [ret |-> Err("Database", "load_account"), journal |-> jr]
    ELSE
    LET jr1 == Credit(jr, d, Coinbase, SatMul(coinbase_gas_price(spec, e), used(gas))) IN
    IF IsNone(l1) \/ IsNone(e.tx.optimism.enveloped_tx)
    THEN [ret |-> Err("Custom", "[OPTIMISM] Failed to load L1 block information."),
          journal |-> jr1]
    ELSE
    LET enveloped_tx == Unwrap(e.tx.optimism.enveloped_tx)
        l1_cost == calculate_tx_l1_cost(Unwrap(l1), enveloped_tx, spec)
        base_fee == (e.block.basefee * used(gas)) % (U256_MAX + 1)
        operator_fee_cost == operator_fee_charge(Unwrap(l1), enveloped_tx, used(gas), spec)
        jr2 == IF l1_cost = 0 THEN jr1 ELSE Credit(jr1, d, L1_FEE_RECIPIENT, l1_cost)
        jr3 == IF base_fee = 0 THEN jr2 ELSE Credit(jr2, d, BASE_FEE_RECIPIENT, base_fee)
    IN  [ret |-> OkUnit,
         journal |-> IF operator_fee_cost = 0 THEN jr3
                     ELSE Credit(jr3, d, OPERATOR_FEE_RECIPIENT, operator_fee_cost)]

\* reward_beneficiary: the returned value and the journal after the call.
\* fail_at = k > 0: the k-th account load that reads the database fails.
\* overflow_checks: whether the build panics on integer overflow.
reward_beneficiary(spec, e, l1, jr, d, gas, fail_at, overflow_checks) ==
    IF is_deposit(e) THEN [ret |-> OkUnit, journal |-> jr]
    ELSE IF UsedUnderflows(gas) /\ overflow_checks
    THEN [ret |-> Panic("attempt to subtract with overflow"), journal |-> jr]
    ELSE IF NeedsDb(jr, Coinbase) /\ fail_at = 1
    THEN [ret |-> Err("Database", "load_account"), journal |-> jr]
    ELSE
    LET jr1 == Credit(jr, d, Coinbase, SatMul(coinbase_gas_price(spec, e), used(gas))) IN
    IF IsNone(l1)
    THEN [ret |-> Err("Custom", "[OPTIMISM] Failed to load L1 block information."),
          journal |-> jr1]
    ELSE IF IsNone(e.tx.optimism.enveloped_tx)
    THEN [ret |-> Err("Custom", "[OPTIMISM] Failed to load enveloped transaction."),
          journal |-> jr1]
    ELSE
    LET enveloped_tx == Unwrap(e.tx.optimism.enveloped_tx)
        l1_cost == calculate_tx_l1_cost(Unwrap(l1), enveloped_tx, spec)
        operator_fee_cost == operator_fee_charge(Unwrap(l1), enveloped_tx, used(gas), spec)
    IN
    IF NeedsDb(jr1, L1_FEE_RECIPIENT) /\ fail_at = 2
    THEN [ret |-> Err("Database", "load_account"), journal |-> jr1]
    ELSE
    LET jr2 == Credit(jr1, d, L1_FEE_RECIPIENT, l1_cost) IN
    IF NeedsDb(jr2, BASE_FEE_RECIPIENT) /\ fail_at = 3
    THEN [ret |-> Err("Database", "load_account"), journal |-> jr2]
    ELSE
    LET jr3 == Credit(jr2, d, BASE_FEE_RECIPIENT,
                      (e.block.basefee * used(gas)) % (U256_MAX + 1)) IN
    IF NeedsDb(jr3, OPERATOR_FEE_RECIPIENT) /\ fail_at = 4
    THEN [ret |-> Err("Database", "load_account"), journal |-> jr3]
    ELSE [ret |-> OkUnit,
          journal |-> Credit(jr3, d, OPERATOR_FEE_RECIPIENT, operator_fee_cost)]

(* ------------------------------- output ------------------------------- *)
\* ResultAndState: the execution result and the state changes.
ExecutionResult(kind, reason, gas_used, gas_refunded) ==
    [kind |-> kind, reason |-> reason, gas_used |-> gas_used, gas_refunded |-> gas_refunded]
ResultAndState(result, state) == [tag |-> "Ok", result |-> result, state |-> state]

is_halt(result) == result.kind = "Halt"

\* mainnet::output: an error recorded during execution is returned; otherwise
\* the result follows the instruction result and the state is the journal's.
mainnet_output(jr, fr) ==
    IF fr.fatal THEN Err("Database", "execution")
    ELSE
    LET gas_refunded == fr.gas.refunded
        final_gas_used == used(fr.gas)
        result ==
            IF fr.result \in ReturnOk
            THEN ExecutionResult("Success", "Stop", final_gas_used, gas_refunded)
            ELSE IF fr.result \in ReturnRevert
            THEN ExecutionResult("Revert", "Revert", final_gas_used, 0)
            ELSE ExecutionResult("Halt", fr.result, final_gas_used, 0)
    IN  ResultAndState(result, jr)

MutOutputAnyFork(spec, e, jr, fr) ==
    LET result == mainnet_output(jr, fr) IN
    IF IsErr(result) THEN result
    ELSE IF is_halt(result.result) /\ is_deposit(e)
    THEN Err("Transaction", "HaltedDepositPostRegolith")
    ELSE result

\* output: the base output, turned into HaltedDepositPostRegolith for a
\* deposit that halts with Regolith active.
output(spec, e, jr, fr) ==
    LET result == mainnet_output(jr, fr) IN
    IF IsErr(result) THEN result
    ELSE IF is_halt(result.result) /\ is_deposit(e) /\ Enabled(spec, "REGOLITH")
    THEN Err("Transaction", "HaltedDepositPostRegolith")
    ELSE result

(* -------------------------------- end --------------------------------- *)
\* The account end builds for a failed deposit, from the raw database account
\* (the default account when the read fails or the account is absent).
MutFailedDepositNoMint(e, d, basic_ok) ==
    LET info == IF basic_ok THEN UnwrapOr(DbBasic(d, Caller), DefaultInfo) ELSE DefaultInfo
        acc == AccountFrom(info)
    IN  mark_touch([acc EXCEPT !.nonce = SatAddU64(acc.nonce, 1)])

failed_deposit_account(e, d, basic_ok) ==
    LET info == IF basic_ok THEN UnwrapOr(DbBasic(d, Caller), DefaultInfo) ELSE DefaultInfo
        acc == AccountFrom(info)
    IN  mark_touch([acc EXCEPT
                       !.nonce = SatAddU64(acc.nonce, 1),
                       !.balance = SatAdd(acc.balance, UnwrapOr(e.tx.optimism.mint, 0))])

\* The gas a failed deposit reports.
MutFailedDepositGasUsedAnd(spec, e) ==
    IF Enabled(spec, "REGOLITH") /\ ~is_system_tx(e) THEN e.tx.gas_limit ELSE 0

failed_deposit_gas_used(spec, e) ==
    IF Enabled(spec, "REGOLITH") \/ ~is_system_tx(e) THEN e.tx.gas_limit ELSE 0

\* end that rewrites nothing.
MutEndNoRewrite(spec, e, d, out, basic_ok) == out

\* end that rewrites a Transaction-class error of every transaction, deposit or not.
MutEndRewritesEveryTx(spec, e, d, out, basic_ok) ==
    IF IsErr(out) /\ out.class = "Transaction"
    THEN ResultAndState(
             ExecutionResult("Halt", "FailedDeposit", failed_deposit_gas_used(spec, e), 0),
             [a \in Addresses |->
                 IF a = Caller THEN Some(failed_deposit_account(e, d, basic_ok)) ELSE None])
    ELSE out

\* end: a Transaction-class error of a deposit becomes Ok(Halt{FailedDeposit});
\* everything else is returned as it came.
end(spec, e, d, out, basic_ok) ==
    IF IsErr(out) /\ out.class = "Transaction" /\ is_deposit(e)
    THEN ResultAndState(
             ExecutionResult("Halt", "FailedDeposit", failed_deposit_gas_used(spec, e), 0),
             [a \in Addresses |->
                 IF a = Caller THEN Some(failed_deposit_account(e, d, basic_ok)) ELSE None])
    ELSE out

(* ------------------------------- clear -------------------------------- *)
\* clear with the L1BlockInfo cache kept.
MutClearKeepsL1(l1, jr) == [l1 |-> l1, journal |-> EmptyJournal]

\* clear: mainnet::clear drops the journal; the L1BlockInfo cache is reset.
clear(l1, jr) == [l1 |-> None, journal |-> EmptyJournal]

(* ----------------------------- DummyHost ------------------------------ *)
\* The storage indexes, the values and the logs the host is called with.
Indexes == {0, 1}
Values == {0, 1}
Logs == {"log"}

\* HashMap<U256, U256>: None for an index the map has no entry for.
EmptyMap == [i \in Indexes |-> None]

\* DummyHost::new(env): the env, and every collection empty.
DummyHost_new(e) ==
    [env |-> e, storage |-> EmptyMap, transient_storage |-> EmptyMap, log |-> << >>]

\* clear that empties the transient storage as well.
MutDummyHostClearAll(h) ==
    [h EXCEPT !.storage = EmptyMap, !.transient_storage = EmptyMap, !.log = << >>]

\* DummyHost::clear: the storage and the log are emptied.
DummyHost_clear(h) == [h EXCEPT !.storage = EmptyMap, !.log = << >>]

\* What a call of the host returned: the value (of sload and tload, the
\* present value of sstore) and is_cold; dropped is what clear found and
\* dropped, kept for comparison.
HostRet(op, index, value, is_cold) ==
    [op |-> op, index |-> index, value |-> value, is_cold |-> is_cold,
     dropped |-> [storage |-> 0, log |-> 0]]

\* DummyHost::sload: an occupied entry is returned warm; a vacant one is
\* filled with zero and returned cold.
DummyHost_sload(h, index) ==
    IF IsSome(h.storage[index])
    THEN [host |-> h, ret |-> HostRet("sload", index, Unwrap(h.storage[index]), FALSE)]
    ELSE [host |-> [h EXCEPT !.storage[index] = Some(0)],
          ret |-> HostRet("sload", index, 0, TRUE)]

\* DummyHost::sstore: the value is inserted; present_value is the value the
\* entry had (zero when there was none), is_cold whether there was none.
DummyHost_sstore(h, index, value) ==
    LET present == h.storage[index]
    IN  [host |-> [h EXCEPT !.storage[index] = Some(value)],
         ret |-> HostRet("sstore", index, UnwrapOr(present, 0), IsNone(present))]

\* DummyHost::tload: the transient value, zero when there is none.
DummyHost_tload(h, index) ==
    [host |-> h, ret |-> HostRet("tload", index, UnwrapOr(h.transient_storage[index], 0), FALSE)]

\* DummyHost::tstore.
DummyHost_tstore(h, index, value) ==
    [host |-> [h EXCEPT !.transient_storage[index] = Some(value)],
     ret |-> HostRet("tstore", index, 0, FALSE)]

\* DummyHost::log.
DummyHost_log(h, l) ==
    [host |-> [h EXCEPT !.log = Append(h.log, l)], ret |-> HostRet("log", 0, 0, FALSE)]

(* ------------------------------- state -------------------------------- *)
VARIABLES
    host,           \* a DummyHost
    host_ret,       \* what the last call of the host returned
    pc,             \* the handler slot the driver runs next
    last,           \* the handler slot that ran last
    spec_id,        \* SPEC::SPEC_ID the handlers are instantiated with
    env,            \* context.evm.inner.env
    db,             \* context.evm.inner.db
    l1_block_info,  \* context.evm.inner.l1_block_info
    journal,        \* context.evm.inner.journaled_state
    frame,          \* the FrameResult of the execution
    eip7702_refund, \* the refund of the EIP-7702 authorization list
    ret,            \* the value the last handler returned
    evm_output,     \* the Result handed to end
    end_output,     \* the Result end returned
    db_basic_ok     \* whether the raw database read of end succeeded

vars ==
    << host, host_ret, pc, last, spec_id, env, db, l1_block_info, journal, frame,
       eip7702_refund, ret, evm_output, end_output, db_basic_ok >>

(* ------------------------------- inputs ------------------------------- *)
MkEnv(dep, sys, mint, gl, gp, val, nonce, envl, mdf, bcd, grd, e3607, bvalid, tvalid, basefee) ==
    [cfg |-> [balance_check_disabled |-> bcd, gas_refund_disabled |-> grd,
              eip3607_disabled |-> e3607],
     block |-> [basefee |-> basefee, valid |-> bvalid],
     tx |-> [caller |-> Caller, gas_limit |-> gl, gas_price |-> gp, value |-> val,
             nonce |-> nonce, max_data_fee |-> mdf, valid |-> tvalid,
             optimism |-> [source_hash |-> IF dep THEN Some(0) ELSE None,
                           mint |-> mint,
                           is_system_transaction |-> sys,
                           enveloped_tx |-> envl]]]

\* Env::default() of the model, used between transactions.
DefaultEnv ==
    MkEnv(FALSE, None, None, 0, 0, 0, None, None, 0, FALSE, FALSE, FALSE, TRUE, TRUE, 0)

MkDb(acc, l1block) ==
    [accounts |-> [a \in Addresses |-> IF a = Caller THEN acc ELSE None],
     l1block |-> l1block]

\* A database in which the three fee vaults hold a balance already.
MkDbVaults(acc, l1block, vault_balance) ==
    [accounts |->
        [a \in Addresses |->
            IF a = Caller THEN acc
            ELSE IF a \in {L1_FEE_RECIPIENT, BASE_FEE_RECIPIENT, OPERATOR_FEE_RECIPIENT}
            THEN Some([balance |-> vault_balance, nonce |-> 0, code |-> "empty"])
            ELSE None],
     l1block |-> l1block]

MkL1(base_fee, scalar, constant) ==
    [l1_base_fee |-> base_fee, operator_fee_scalar |-> scalar,
     operator_fee_constant |-> constant]

MkInfo(balance, nonce, code) == [balance |-> balance, nonce |-> nonce, code |-> code]

DefaultDb == MkDb(None, MkL1(0, 0, 0))

\* Sizes the inputs are built from.
GasLimit == 10
Mint == 3
EnvelopeGas == 2
Balance == 100

OptBool == {None, Some(TRUE), Some(FALSE)}

\* The transactions driven through the whole pipeline.
PipelineEnvs ==
    { MkEnv(dep, sys, mint, GasLimit, 1, 0, None, envl, 0, FALSE, grd, FALSE, TRUE, TRUE, 1) :
        dep \in BOOLEAN, sys \in OptBool, mint \in {None, Some(Mint)},
        envl \in {None, Some(0), Some(EnvelopeGas)}, grd \in BOOLEAN }

PipelineDbs ==
    { MkDb(acc, MkL1(1, 2, 1)) :
        acc \in { None,
                  Some(MkInfo(Balance, 1, "empty")),
                  Some(MkInfo(U256_MAX, U64_MAX, "contract")) } }

\* The transactions given to the validation phase: the first family varies what
\* validate_env reads, the second what validate_tx_against_state reads.
ValidateEnvs ==
    { MkEnv(dep, sys, None, GasLimit, 1, 0, nonce, Some(0), 0, FALSE, FALSE, FALSE,
            bvalid, tvalid, 1) :
        dep \in BOOLEAN, sys \in OptBool, nonce \in {None, Some(2)},
        bvalid \in BOOLEAN, tvalid \in BOOLEAN }
    \cup
    { MkEnv(FALSE, None, None, GasLimit, gp, val, nonce, envl, mdf, bcd, FALSE, e3607,
            TRUE, TRUE, 1) :
        gp \in {1, U256_MAX}, val \in {0, U256_MAX},
        nonce \in {None, Some(0), Some(1), Some(2)},
        envl \in {None, Some(0), Some(EnvelopeGas)}, mdf \in {0, U256_MAX},
        bcd \in BOOLEAN, e3607 \in BOOLEAN }

ValidateDbs ==
    { MkDb(acc, l1block) :
        acc \in { None,
                  Some(MkInfo(Balance, 1, "empty")),
                  Some(MkInfo(U256_MAX, 1, "eip7702")),
                  Some(MkInfo(Mint, 1, "contract")) },
        l1block \in { MkL1(1, 2, 1), MkL1(U256_MAX, 2, 1), MkL1(1, 2, U256_MAX) } }

\* The transactions deduct_caller is called with on its own.
DeductEnvs ==
    { MkEnv(dep, sys, mint, GasLimit, gp, 0, None, envl, 0, FALSE, FALSE, FALSE, TRUE, TRUE, 1) :
        dep \in BOOLEAN, sys \in {None, Some(TRUE)}, mint \in {None, Some(Mint)},
        gp \in {0, 1}, envl \in {None, Some(0), Some(EnvelopeGas)} }

DeductDbs ==
    { MkDb(acc, l1block) :
        acc \in { None,
                  Some(MkInfo(Mint, 1, "empty")),
                  Some(MkInfo(Balance, 1, "empty")),
                  Some(MkInfo(U256_MAX, U64_MAX, "contract")) },
        l1block \in { MkL1(1, 2, 1), MkL1(Mint, 4, 0) } }

\* The non-deposit transactions validated and then charged: with and without
\* a mint, a value, a blob fee and the balance-check override.
ChargeEnvs ==
    { MkEnv(FALSE, None, mint, GasLimit, gp, val, None, envl, mdf, bcd, FALSE, FALSE,
            TRUE, TRUE, 1) :
        mint \in {None, Some(Mint)}, gp \in {0, 1}, val \in {0, Mint},
        envl \in {Some(0), Some(EnvelopeGas)}, mdf \in {0, 1}, bcd \in BOOLEAN }

\* Callers without funds, with funds around the payment total, and with the
\* largest balance.
ChargeDbs ==
    { MkDb(acc, l1block) :
        acc \in {None} \cup
                { Some(MkInfo(b, 1, "empty")) :
                    b \in (GasLimit .. GasLimit + 2 * Mint) \cup {Balance, U256_MAX} },
        l1block \in { MkL1(1, 2, 1), MkL1(Mint, 4, 0) } }

\* The transactions the gas handlers are called with on their own.
GasEnvs ==
    { MkEnv(dep, sys, None, GasLimit, 1, 0, None, Some(EnvelopeGas), 0, FALSE, grd, FALSE,
            TRUE, TRUE, 1) :
        dep \in BOOLEAN, sys \in OptBool, grd \in BOOLEAN }

\* The databases the post-execution handlers are called with: fee vaults not
\* yet in the database, or funded.
FrameDbs ==
    PipelineDbs \cup
    { MkDbVaults(Some(MkInfo(Balance, 1, "empty")), MkL1(1, 2, 1), Balance) }

\* The values end can be handed when it is called on its own.
EndInputs ==
    { Err("Transaction", "HaltedDepositPostRegolith"),
      Err("Transaction", "CallGasCostMoreThanGasLimit"),
      Err("Database", "execution"),
      Err("Custom", "[OPTIMISM] Failed to load enveloped transaction."),
      ResultAndState(ExecutionResult("Success", "Stop", 1, 0), EmptyJournal),
      ResultAndState(ExecutionResult("Halt", "OutOfGas", GasLimit, 0), EmptyJournal) }

\* A FrameResult: the instruction result and the gas of the top frame, whether
\* the execution recorded a fatal error, and (saved) the gas last_frame_return
\* read on entry, before it overwrote the frame's gas.
MkFrame(r, gas, fatal) == [result |-> r, gas |-> gas, fatal |-> fatal, saved |-> gas]

\* The frames an execution can return.
Frames(e) ==
    { MkFrame(r, NewGas(e.tx.gas_limit, rem, ref), FALSE) :
        r \in InstructionResults, rem \in {0, 1}, ref \in {0, 3} }
    \cup { MkFrame("OutOfGas", NewGas(e.tx.gas_limit, 0, 0), TRUE) }

\* The refunds apply_eip7702_auth_list can return: zero before Prague.
Eip7702Refunds(spec) == IF Enabled(spec, "PRAGUE") THEN {0, 3} ELSE {0}

\* The values the eip7702_refund parameter of refund can be given by a caller
\* of the handler.
RefundArguments == {0, Mint}

\* The envs a DummyHost is made for.
HostEnvs == {DefaultEnv, [DefaultEnv EXCEPT !.tx.gas_limit = GasLimit]}

\* The longest log of the host.
MaxLog == 2

(* ------------------------------ actions ------------------------------- *)
\* The handlers do not use the DummyHost.
HostIdle == UNCHANGED << host, host_ret >>

\* The driver takes a transaction: the env is set and the database is in some state.
BeginTx(Envs, Dbs) ==
    /\ HostIdle
    /\ pc = "idle"
    /\ \E e \in Envs, d \in Dbs : env' = e /\ db' = d
    /\ pc' = "validate_env"
    /\ last' = "begin"
    /\ UNCHANGED << spec_id, l1_block_info, journal, frame, eip7702_refund, ret,
                    evm_output, end_output, db_basic_ok >>

ValidateEnv ==
    /\ HostIdle
    /\ pc = "validate_env"
    /\ ret' = validate_env(spec_id, env)
    /\ pc' = IF IsOk(ret') THEN "validate_tx_against_state" ELSE "clear"
    /\ last' = "validate_env"
    /\ UNCHANGED << spec_id, env, db, l1_block_info, journal, frame, eip7702_refund,
                    evm_output, end_output, db_basic_ok >>

\* after_ok: the slot the driver runs after a successful validation.
ValidateTxAgainstState(after_ok) ==
    /\ HostIdle
    /\ pc = "validate_tx_against_state"
    /\ \E fetch_ok \in BOOLEAN, load_ok \in BOOLEAN :
         LET r == validate_tx_against_state(spec_id, env, l1_block_info, journal, db,
                                            fetch_ok, load_ok)
         IN  /\ ret' = r.ret
             /\ l1_block_info' = r.l1
             /\ journal' = r.journal
             /\ pc' = IF IsOk(r.ret) THEN after_ok ELSE "clear"
    /\ last' = "validate_tx_against_state"
    /\ UNCHANGED << spec_id, env, db, frame, eip7702_refund, evm_output, end_output, db_basic_ok >>

\* A handler of transact_preverified_inner returned r: Ok continues with the
\* next slot, an error is handed to end, a panic unwinds.
Continue(r, next) ==
    /\ ret' = r
    /\ pc' = IF IsOk(r) THEN next ELSE IF IsPanic(r) THEN "panicked" ELSE "end"
    /\ evm_output' = IF IsErr(r) THEN Some(r) ELSE evm_output

DeductCaller ==
    /\ HostIdle
    /\ pc = "deduct_caller"
    /\ \E load_ok \in BOOLEAN :
         LET r == deduct_caller(spec_id, env, l1_block_info, journal, db, load_ok)
         IN  /\ journal' = r.journal
             /\ Continue(r.ret, "execute")
    /\ last' = "deduct_caller"
    /\ UNCHANGED << spec_id, env, db, l1_block_info, frame, eip7702_refund, end_output, db_basic_ok >>

\* The interpreter runs and returns the top frame's result, or the call fails
\* with a database error.
Execute ==
    /\ HostIdle
    /\ pc = "execute"
    /\ \/ \E fr \in Frames(env), r7702 \in Eip7702Refunds(spec_id) :
            /\ frame' = Some(fr)
            /\ eip7702_refund' = r7702
            /\ Continue(OkUnit, "last_frame_return")
       \/ /\ Continue(Err("Database", "execution"), "last_frame_return")
          /\ UNCHANGED << frame, eip7702_refund >>
    /\ last' = "execute"
    /\ UNCHANGED << spec_id, env, db, l1_block_info, journal, end_output, db_basic_ok >>

LastFrameReturn ==
    /\ HostIdle
    /\ pc = "last_frame_return"
    /\ LET fr == Unwrap(frame)
       IN  frame' = Some([fr EXCEPT !.gas = last_frame_return(spec_id, env, fr.result, fr.gas),
                                    !.saved = fr.gas])
    /\ Continue(OkUnit, "refund")
    /\ last' = "last_frame_return"
    /\ UNCHANGED << spec_id, env, db, l1_block_info, journal, eip7702_refund, end_output, db_basic_ok >>

Refund ==
    /\ HostIdle
    /\ pc = "refund"
    /\ LET fr == Unwrap(frame)
       IN  frame' = Some([fr EXCEPT !.gas = refund(spec_id, env, fr.gas, eip7702_refund)])
    /\ Continue(OkUnit, "reimburse_caller")
    /\ last' = "refund"
    /\ UNCHANGED << spec_id, env, db, l1_block_info, journal, eip7702_refund, end_output, db_basic_ok >>

ReimburseCaller ==
    /\ HostIdle
    /\ pc = "reimburse_caller"
    /\ \E load_ok \in BOOLEAN :
         LET r == reimburse_caller(spec_id, env, l1_block_info, journal, db,
                                   Unwrap(frame).gas, load_ok)
         IN  /\ journal' = r.journal
             /\ Continue(r.ret, "reward_beneficiary")
    /\ last' = "reimburse_caller"
    /\ UNCHANGED << spec_id, env, db, l1_block_info, frame, eip7702_refund, end_output, db_basic_ok >>

RewardBeneficiary ==
    /\ HostIdle
    /\ pc = "reward_beneficiary"
    /\ \E fail_at \in 0..4, overflow_checks \in BOOLEAN :
         LET r == reward_beneficiary(spec_id, env, l1_block_info, journal, db,
                                     Unwrap(frame).gas, fail_at, overflow_checks)
         IN  /\ journal' = r.journal
             /\ Continue(r.ret, "output")
    /\ last' = "reward_beneficiary"
    /\ UNCHANGED << spec_id, env, db, l1_block_info, frame, eip7702_refund, end_output, db_basic_ok >>

Output ==
    /\ HostIdle
    /\ pc = "output"
    /\ evm_output' = Some(output(spec_id, env, journal, Unwrap(frame)))
    /\ ret' = Unwrap(evm_output')
    /\ pc' = "end"
    /\ last' = "output"
    /\ UNCHANGED << spec_id, env, db, l1_block_info, journal, frame, eip7702_refund,
                    end_output, db_basic_ok >>

End ==
    /\ HostIdle
    /\ pc = "end"
    /\ \E basic_ok \in BOOLEAN :
         /\ end_output' = Some(end(spec_id, env, db, Unwrap(evm_output), basic_ok))
         /\ db_basic_ok' = basic_ok
    /\ ret' = Unwrap(end_output')
    /\ pc' = "clear"
    /\ last' = "end"
    /\ UNCHANGED << spec_id, env, db, l1_block_info, journal, frame, eip7702_refund,
                    evm_output >>

Clear ==
    /\ HostIdle
    /\ pc = "clear"
    /\ LET c == clear(l1_block_info, journal)
       IN  l1_block_info' = c.l1 /\ journal' = c.journal
    /\ pc' = "cleared"
    /\ last' = "clear"
    /\ UNCHANGED << spec_id, env, db, frame, eip7702_refund, ret, evm_output, end_output, db_basic_ok >>

\* transact returns the output to its caller; the context waits for the next
\* transaction.
Return ==
    /\ HostIdle
    /\ pc = "cleared"
    /\ pc' = "idle"
    /\ last' = "return"
    /\ env' = DefaultEnv
    /\ db' = DefaultDb
    /\ frame' = None
    /\ eip7702_refund' = 0
    /\ ret' = OkUnit
    /\ evm_output' = None
    /\ end_output' = None
    /\ db_basic_ok' = TRUE
    /\ UNCHANGED << spec_id, l1_block_info, journal >>

\* end called on its own, as a handler slot, with any transaction and any input.
CallEnd ==
    /\ HostIdle
    /\ pc = "idle"
    /\ \E e \in PipelineEnvs, d \in PipelineDbs, out \in EndInputs :
         env' = e /\ db' = d /\ evm_output' = Some(out)
    /\ pc' = "end"
    /\ last' = "begin"
    /\ UNCHANGED << spec_id, l1_block_info, journal, frame, eip7702_refund, ret,
                    end_output, db_basic_ok >>

\* deduct_caller called on its own on a fresh context whose l1_block_info the
\* caller has set, or left None.
CallDeductCaller ==
    /\ HostIdle
    /\ pc = "idle"
    /\ \E e \in DeductEnvs, d \in DeductDbs, loaded \in BOOLEAN :
         /\ env' = e
         /\ db' = d
         /\ l1_block_info' = IF loaded THEN Some(d.l1block) ELSE None
    /\ pc' = "deduct_caller"
    /\ last' = "begin"
    /\ UNCHANGED << spec_id, journal, frame, eip7702_refund, ret, evm_output, end_output,
                    db_basic_ok >>

\* The post-execution handlers called on their own with a frame result:
\* last_frame_return and refund and what follows them, or reward_beneficiary.
CallFrameHandler ==
    /\ HostIdle
    /\ pc = "idle"
    /\ \E e \in GasEnvs, d \in FrameDbs, loaded \in BOOLEAN,
          r7702 \in Eip7702Refunds(spec_id), slot \in {"last_frame_return", "reward_beneficiary"} :
       \E fr \in Frames(e) :
         /\ ~fr.fatal
         /\ env' = e
         /\ db' = d
         /\ l1_block_info' = IF loaded THEN Some(d.l1block) ELSE None
         /\ frame' = Some(fr)
         /\ eip7702_refund' = r7702
         /\ pc' = slot
    /\ last' = "begin"
    /\ UNCHANGED << spec_id, journal, ret, evm_output, end_output, db_basic_ok >>

\* last_frame_return and refund called on their own with a frame result and
\* any eip7702_refund argument.
CallGasHandlers ==
    /\ HostIdle
    /\ pc = "idle"
    /\ \E e \in GasEnvs, r7702 \in RefundArguments :
       \E fr \in Frames(e) :
         /\ ~fr.fatal
         /\ env' = e
         /\ frame' = Some(fr)
         /\ eip7702_refund' = r7702
    /\ pc' = "last_frame_return"
    /\ last' = "begin"
    /\ UNCHANGED << spec_id, db, l1_block_info, journal, ret, evm_output, end_output,
                    db_basic_ok >>

\* The context is dropped and a fresh one is made.
Drop ==
    /\ HostIdle
    /\ pc # "idle"
    /\ pc' = "idle"
    /\ last' = "return"
    /\ env' = DefaultEnv
    /\ db' = DefaultDb
    /\ l1_block_info' = None
    /\ journal' = EmptyJournal
    /\ frame' = None
    /\ eip7702_refund' = 0
    /\ ret' = OkUnit
    /\ evm_output' = None
    /\ end_output' = None
    /\ db_basic_ok' = TRUE
    /\ UNCHANGED spec_id

\* The interpreter does not use the handler context of the model.
TxIdle ==
    UNCHANGED << pc, last, spec_id, env, db, l1_block_info, journal, frame,
                 eip7702_refund, ret, evm_output, end_output, db_basic_ok >>

\* A DummyHost is made for an env.
HostNew ==
    /\ \E e \in HostEnvs : host' = DummyHost_new(e)
    /\ host_ret' = HostRet("new", 0, 0, FALSE)
    /\ TxIdle

HostSload ==
    /\ \E index \in Indexes :
         LET r == DummyHost_sload(host, index)
         IN  host' = r.host /\ host_ret' = r.ret
    /\ TxIdle

HostSstore ==
    /\ \E index \in Indexes, value \in Values :
         LET r == DummyHost_sstore(host, index, value)
         IN  host' = r.host /\ host_ret' = r.ret
    /\ TxIdle

HostTload ==
    /\ \E index \in Indexes :
         LET r == DummyHost_tload(host, index)
         IN  host' = r.host /\ host_ret' = r.ret
    /\ TxIdle

HostTstore ==
    /\ \E index \in Indexes, value \in Values :
         LET r == DummyHost_tstore(host, index, value)
         IN  host' = r.host /\ host_ret' = r.ret
    /\ TxIdle

HostLog ==
    /\ Len(host.log) < MaxLog
    /\ \E l \in Logs :
         LET r == DummyHost_log(host, l)
         IN  host' = r.host /\ host_ret' = r.ret
    /\ TxIdle

HostClear ==
    /\ host' = DummyHost_clear(host)
    /\ host_ret' =
         [HostRet("clear", 0, 0, FALSE) EXCEPT
            !.dropped = [storage |-> Cardinality({i \in Indexes : IsSome(host.storage[i])}),
                         log |-> Len(host.log)]]
    /\ TxIdle

(* --------------------------- specifications --------------------------- *)
\* The context after construction: no transaction, an empty journal, no
\* L1BlockInfo.
Init ==
    /\ host = DummyHost_new(DefaultEnv)
    /\ host_ret = HostRet("new", 0, 0, FALSE)
    /\ pc = "idle"
    /\ last = "return"
    /\ spec_id \in SpecIds
    /\ env = DefaultEnv
    /\ db = DefaultDb
    /\ l1_block_info = None
    /\ journal = EmptyJournal
    /\ frame = None
    /\ eip7702_refund = 0
    /\ ret = OkUnit
    /\ evm_output = None
    /\ end_output = None
    /\ db_basic_ok = TRUE

\* Evm::transact over a sequence of transactions.
Next ==
    \/ BeginTx(PipelineEnvs, PipelineDbs)
    \/ ValidateEnv
    \/ ValidateTxAgainstState("deduct_caller")
    \/ DeductCaller
    \/ Execute
    \/ LastFrameReturn
    \/ Refund
    \/ ReimburseCaller
    \/ RewardBeneficiary
    \/ Output
    \/ End
    \/ Clear
    \/ Return

Spec == Init /\ [][Next]_vars

\* Evm::preverify_transaction over a sequence of transactions: the validation
\* phase, then clear.
NextValidate ==
    \/ BeginTx(ValidateEnvs, ValidateDbs)
    \/ ValidateEnv
    \/ ValidateTxAgainstState("clear")
    \/ Clear
    \/ Return

SpecValidate == Init /\ [][NextValidate]_vars

\* The end slot called directly, then clear.
NextEnd ==
    \/ CallEnd
    \/ End
    \/ Clear
    \/ Return

SpecEnd == Init /\ [][NextEnd]_vars

\* The handlers called directly, one context per call.
NextHandlers ==
    \/ CallDeductCaller
    \/ CallFrameHandler
    \/ DeductCaller
    \/ LastFrameReturn
    \/ Refund
    \/ ReimburseCaller
    \/ RewardBeneficiary
    \/ Drop

SpecHandlers == Init /\ [][NextHandlers]_vars

\* The pipeline up to the execution: validation, then deduct_caller; the
\* context is dropped afterwards.
NextCharge ==
    \/ BeginTx(ChargeEnvs, ChargeDbs)
    \/ ValidateEnv
    \/ ValidateTxAgainstState("deduct_caller")
    \/ DeductCaller
    \/ Drop

SpecCharge == Init /\ [][NextCharge]_vars

\* The gas handlers called directly, with any refund argument.
NextRefund ==
    \/ CallGasHandlers
    \/ LastFrameReturn
    \/ Refund
    \/ Drop

SpecRefund == Init /\ [][NextRefund]_vars

\* An interpreter run against a DummyHost: any sequence of host calls.
NextHost ==
    \/ HostNew
    \/ HostSload
    \/ HostSstore
    \/ HostTload
    \/ HostTstore
    \/ HostLog
    \/ HostClear

SpecHost == Init /\ [][NextHost]_vars

(* ============================== claims ================================ *)
\* What the claims speak about, read off the state.
EndRan == last = "end"
EndInput == Unwrap(evm_output)
EndResult == Unwrap(end_output)
RegolithActive == Enabled(spec_id, "REGOLITH")
TxMint == UnwrapOr(env.tx.optimism.mint, 0)

\* The raw database account end read: the default account when the caller is
\* absent from the database or the read failed.
RawCaller == IF db_basic_ok THEN UnwrapOr(db.accounts[Caller], DefaultInfo) ELSE DefaultInfo

IsFailedDeposit(r) ==
    /\ r.tag = "Ok"
    /\ r.result.kind = "Halt"
    /\ r.result.reason = "FailedDeposit"

\* end was handed a Transaction-class error for a deposit.
EndRewrites == EndRan /\ is_deposit(env) /\ IsErr(EndInput) /\ EndInput.class = "Transaction"

C2_ExactIncrement ==
    EndRewrites =>
        /\ \A a \in Addresses : IsSome(EndResult.state[a]) <=> a = Caller
        /\ Unwrap(EndResult.state[Caller]).touched
        /\ Unwrap(EndResult.state[Caller]).nonce = RawCaller.nonce + 1
        /\ Unwrap(EndResult.state[Caller]).balance = RawCaller.balance + TxMint

(* C2 amended: the same, with saturating arithmetic: nonce = min(database      *)
(* nonce + 1, u64::MAX) and balance = min(database balance + mint, U256::MAX), *)
(* an absent account or a failed read counting as nonce 0 and balance 0.       *)
C2_SaturatingIncrement ==
    EndRewrites =>
        /\ \A a \in Addresses : IsSome(EndResult.state[a]) <=> a = Caller
        /\ Unwrap(EndResult.state[Caller]).touched
        /\ Unwrap(EndResult.state[Caller]).nonce = Min(RawCaller.nonce + 1, U64_MAX)
        /\ Unwrap(EndResult.state[Caller]).balance = Min(RawCaller.balance + TxMint, U256_MAX)
        /\ Unwrap(EndResult.state[Caller]).code = RawCaller.code

\* A rewritten deposit whose journal account differs from the account end
\* returns: the journal holds the mint and the gas deduction of deduct_caller.
C2_Witness ==
    /\ EndRewrites
    /\ IsSome(env.tx.optimism.mint)
    /\ IsSome(journal[Caller])
    /\ Unwrap(journal[Caller]).balance # Unwrap(EndResult.state[Caller]).balance
    /\ Unwrap(EndResult.state[Caller]).balance = RawCaller.balance + TxMint

(* C3: the gas_used end reports for a rewritten failed deposit is tx.gas_limit *)
(* when Regolith is active or the transaction is not a system transaction, and *)
(* 0 exactly when Regolith is not active and is_system_transaction is          *)
(* Some(true).                                                                 *)
C3_FailedDepositGasUsed ==
    EndRewrites =>
        /\ IsFailedDeposit(EndResult)
        /\ (RegolithActive \/ env.tx.optimism.is_system_transaction # Some(TRUE))
              => EndResult.result.gas_used = env.tx.gas_limit
        /\ (~RegolithActive /\ env.tx.optimism.is_system_transaction = Some(TRUE))
              <=> EndResult.result.gas_used = 0

C3_Witness ==
    /\ EndRewrites
    /\ ~RegolithActive
    /\ env.tx.optimism.is_system_transaction = Some(TRUE)
    /\ EndResult.result.gas_used = 0
    /\ env.tx.gas_limit > 0

(* C4: output returns Err(HaltedDepositPostRegolith) exactly when the base     *)
(* result is a Halt, the transaction is a deposit and Regolith is active, and  *)
(* the base result unchanged in every other case; for a post-Regolith deposit  *)
(* that halts, output followed by end yields Ok(Halt{FailedDeposit}) with      *)
(* gas_used = tx.gas_limit.                                                    *)
BaseOutput == mainnet_output(journal, Unwrap(frame))
BaseHalts == IsOk(BaseOutput) /\ BaseOutput.result.kind = "Halt"
HaltedDeposit == Err("Transaction", "HaltedDepositPostRegolith")

C4_OutputHaltedDeposit ==
    /\ last = "output" =>
          IF BaseHalts /\ is_deposit(env) /\ RegolithActive
          THEN EndInput = HaltedDeposit
          ELSE EndInput = BaseOutput /\ EndInput # HaltedDeposit
    /\ (EndRan /\ EndInput = HaltedDeposit) =>
          /\ IsFailedDeposit(EndResult)
          /\ EndResult.result.gas_used = env.tx.gas_limit

C4_Witness ==
    /\ EndRan
    /\ EndInput = HaltedDeposit
    /\ IsSome(frame) /\ Unwrap(frame).result \in ReturnHalt
    /\ env.tx.optimism.is_system_transaction = Some(TRUE)
    /\ EndResult.result.gas_used = env.tx.gas_limit

(* C5: for every env whose source_hash is present, validate_env returns Ok,    *)
(* whether or not the block env and the transaction env are valid and          *)
(* whatever the is_system_transaction flag and the active fork are.            *)
C5_DepositSkipsEnvValidation ==
    (last = "validate_env" /\ IsSome(env.tx.optimism.source_hash)) => ret = OkUnit

C5_Witness ==
    /\ last = "validate_env"
    /\ IsSome(env.tx.optimism.source_hash)
    /\ ~env.block.valid
    /\ ~env.tx.valid
    /\ env.tx.optimism.is_system_transaction = Some(TRUE)
    /\ RegolithActive
    /\ ret = OkUnit

(* C6 as stated: for every env with is_system_transaction = Some(true) and     *)
(* source_hash = None, validate_env returns DepositSystemTxPostRegolith when   *)
(* Regolith is active and Ok before Regolith.                                  *)
SystemTxNoDeposit ==
    /\ last = "validate_env"
    /\ env.tx.optimism.is_system_transaction = Some(TRUE)
    /\ IsNone(env.tx.optimism.source_hash)

DepositSystemTxPostRegolith == Err("Transaction", "DepositSystemTxPostRegolith")

C6_SystemTxEveryEnv ==
    SystemTxNoDeposit =>
        IF RegolithActive THEN ret = DepositSystemTxPostRegolith ELSE ret = OkUnit

(* C6 amended: for every env with is_system_transaction = Some(true),          *)
(* source_hash = None and a valid block env, validate_env returns              *)
(* DepositSystemTxPostRegolith when Regolith is active (whatever the           *)
(* transaction env), and before Regolith it returns Ok when the transaction    *)
(* env is valid too; an invalid block env is rejected first, on every fork.    *)
C6_SystemTxValidBlock ==
    SystemTxNoDeposit =>
        /\ (env.block.valid /\ RegolithActive) => ret = DepositSystemTxPostRegolith
        /\ (env.block.valid /\ ~RegolithActive /\ env.tx.valid) => ret = OkUnit
        /\ ~env.block.valid => (IsErr(ret) /\ ret.class = "Header")

C6_Witness ==
    /\ SystemTxNoDeposit
    /\ env.block.valid
    /\ ~env.tx.valid
    /\ RegolithActive
    /\ ret = DepositSystemTxPostRegolith

(* C7: for a deposit, validate_tx_against_state returns Ok whatever the        *)
(* caller's code, nonce and balance are, and changes nothing: l1_block_info    *)
(* stays as it was, no account is loaded into the journal, no balance changes. *)
C7_DepositSkipsStateValidation ==
    [][(pc = "validate_tx_against_state" /\ IsSome(env.tx.optimism.source_hash)) =>
          /\ ret' = OkUnit
          /\ l1_block_info' = l1_block_info
          /\ journal' = journal
          /\ db' = db]_vars

C7_Witness ==
    /\ last = "validate_tx_against_state"
    /\ IsSome(env.tx.optimism.source_hash)
    /\ IsSome(db.accounts[Caller])
    /\ Unwrap(db.accounts[Caller]).code = "contract"
    /\ IsSome(env.tx.nonce)
    /\ Unwrap(env.tx.nonce) # Unwrap(db.accounts[Caller]).nonce
    /\ ret = OkUnit
    /\ journal = EmptyJournal

\* The caller as validate_tx_against_state loads it at the start of a
\* transaction, and the checks that come before the payment total.
DbCaller == UnwrapOr(db.accounts[Caller], DefaultInfo)

StateValidated == last = "validate_tx_against_state" /\ IsNone(env.tx.optimism.source_hash)

ReachedTotal ==
    /\ StateValidated
    /\ ~(IsErr(ret) /\ ret.class = "Database")
    /\ (env.cfg.eip3607_disabled \/ DbCaller.code \in {"empty", "eip7702"})
    /\ (IsNone(env.tx.nonce) \/ Unwrap(env.tx.nonce) = DbCaller.nonce)
    /\ IsSome(env.tx.optimism.enveloped_tx)

\* The payment total over the unbounded integers.
L1Cost == calculate_tx_l1_cost(db.l1block, Unwrap(env.tx.optimism.enveloped_tx), spec_id)
OperatorFee ==
    operator_fee_charge(db.l1block, Unwrap(env.tx.optimism.enveloped_tx),
                        env.tx.gas_limit, spec_id)
Total ==
    env.tx.gas_limit * env.tx.gas_price + env.tx.value + L1Cost + OperatorFee
    + (IF Enabled(spec_id, "CANCUN") THEN env.tx.max_data_fee ELSE 0)

(* C8: for a non-deposit that passes the earlier checks, with total =          *)
(* gas_limit*gas_price + value + l1_cost + operator_fee_charge (+ max blob     *)
(* data fee from Cancun on): total > balance without balance_check_disabled    *)
(* fails with LackOfFundForMaxFee{total, balance} and leaves the balance;      *)
(* with balance_check_disabled it returns Ok and the in-memory balance becomes *)
(* total; total <= balance returns Ok and leaves the balance.                  *)
C8_FundsCheck ==
    (ReachedTotal /\ Total <= U256_MAX) =>
        /\ IsSome(journal[Caller])
        /\ (Total > DbCaller.balance /\ ~env.cfg.balance_check_disabled) =>
              /\ ret = ErrLackOfFund(Total, DbCaller.balance)
              /\ Unwrap(journal[Caller]).balance = DbCaller.balance
        /\ (Total > DbCaller.balance /\ env.cfg.balance_check_disabled) =>
              /\ ret = OkUnit
              /\ Unwrap(journal[Caller]).balance = Total
        /\ Total <= DbCaller.balance =>
              /\ ret = OkUnit
              /\ Unwrap(journal[Caller]).balance = DbCaller.balance

C8_Witness ==
    /\ ReachedTotal
    /\ Total <= U256_MAX
    /\ Total > DbCaller.balance
    /\ L1Cost > 0
    /\ OperatorFee > 0
    /\ env.cfg.balance_check_disabled
    /\ Unwrap(journal[Caller]).balance = Total

(* C9: in validate_tx_against_state, whenever a step of gas_limit*gas_price +  *)
(* value + l1_cost + operator_fee_charge (+ blob data fee from Cancun on)      *)
(* exceeds 2^256 - 1 the result is OverflowPaymentInTransaction; the sum is    *)
(* never wrapped and then compared with the balance.                           *)
C9_OverflowRejected ==
    (ReachedTotal /\ Total > U256_MAX) =>
        /\ ret = Err("Transaction", "OverflowPaymentInTransaction")
        /\ Unwrap(journal[Caller]).balance = DbCaller.balance

\* The overflow happens at a late step and the wrapped sum would have passed.
C9_Witness ==
    /\ ReachedTotal
    /\ Total > U256_MAX
    /\ env.tx.gas_limit * env.tx.gas_price + env.tx.value <= U256_MAX
    /\ Total % (U256_MAX + 1) <= DbCaller.balance
    /\ ret = Err("Transaction", "OverflowPaymentInTransaction")

(* C10: over any sequence of transactions the L1BlockInfo cache is None at the *)
(* start of each transaction, becomes Some(fetched) once                       *)
(* validate_tx_against_state has fetched it for a non-deposit (a failed fetch  *)
(* is returned as a Database error and leaves it None), is never replaced      *)
(* while Some, and is None after every clear.                                  *)
C10_L1BlockInfoLifecycle ==
    /\ [](pc \in {"idle", "validate_env", "validate_tx_against_state"}
            => l1_block_info = None)
    /\ [](StateValidated =>
            IF ret = Err("Database", "try_fetch")
            THEN l1_block_info = None
            ELSE l1_block_info = Some(db.l1block))
    /\ []((last = "validate_tx_against_state" /\ IsSome(env.tx.optimism.source_hash))
            => l1_block_info = None)
    /\ [](last = "clear" => l1_block_info = None)
    /\ [][IsSome(l1_block_info) =>
            \/ l1_block_info' = l1_block_info
            \/ pc = "clear" /\ l1_block_info' = None]_vars

\* A transaction after which clear dropped a fetched L1BlockInfo.
C10_Witness ==
    /\ last = "clear"
    /\ IsNone(env.tx.optimism.source_hash)
    /\ IsSome(end_output)
    /\ l1_block_info = None

(* C11: for a non-deposit, a handler step that needs l1_block_info            *)
(* (deduct_caller, reimburse_caller, reward_beneficiary) and finds it None     *)
(* returns a typed internal (Custom) error; no step panics on the missing      *)
(* L1BlockInfo.                                                                *)
C11_MissingL1TypedError ==
    ( /\ last \in {"deduct_caller", "reimburse_caller", "reward_beneficiary"}
      /\ IsNone(env.tx.optimism.source_hash)
      /\ l1_block_info = None
      /\ ~(IsErr(ret) /\ ret.class = "Database") )
    => (IsErr(ret) /\ ret.class = "Custom")

\* deduct_caller ran Ok on a context whose journal was empty before the call.
Deducted == last = "deduct_caller" /\ IsOk(ret)

Max0(x) == IF x < 0 THEN 0 ELSE x

\* What deduct_caller_inner subtracts, over the unbounded integers.
BaseDeduction ==
    env.tx.gas_limit * env.tx.gas_price + env.tx.value
    + (IF Enabled(spec_id, "CANCUN") THEN env.tx.max_data_fee ELSE 0)

CallerBalance == Unwrap(journal[Caller]).balance

(* C12 as stated: for all caller balances b and mints m, after deduct_caller   *)
(* on a deposit the caller balance equals b + m, whatever the envelope and the *)
(* L1 block parameters are.                                                    *)
C12_DepositBalancePlusMint ==
    (Deducted /\ IsSome(env.tx.optimism.source_hash)) =>
        CallerBalance = DbCaller.balance + TxMint

(* C12 amended: after deduct_caller on a deposit the caller balance equals     *)
(* (b + m) mod 2^256 less the base deduction of deduct_caller_inner, not below *)
(* zero: it is b + m when the sum fits U256 and the base deduction is zero.    *)
(* Neither the L1 cost nor the operator fee is subtracted, whatever the        *)
(* envelope and the L1 block parameters are.                                   *)
C12_DepositMintLessBase ==
    (Deducted /\ IsSome(env.tx.optimism.source_hash)) =>
        /\ CallerBalance = Max0(((DbCaller.balance + TxMint) % (U256_MAX + 1)) - BaseDeduction)
        /\ (BaseDeduction = 0 /\ DbCaller.balance + TxMint <= U256_MAX)
              => CallerBalance = DbCaller.balance + TxMint

C12_Witness ==
    /\ Deducted
    /\ IsSome(env.tx.optimism.source_hash)
    /\ IsSome(env.tx.optimism.mint)
    /\ IsSome(env.tx.optimism.enveloped_tx)
    /\ IsSome(l1_block_info)
    /\ L1Cost > 0
    /\ OperatorFee > 0
    /\ DbCaller.balance > 0
    /\ CallerBalance = DbCaller.balance + TxMint

(* C13 as stated: for a non-deposit with caller balance b, after deduct_caller *)
(* the caller balance equals b + mint - l1_cost - operator_fee_charge -        *)
(* base_deduction (mint 0 when absent).                                        *)
C13_ExactDeduction ==
    (Deducted /\ IsNone(env.tx.optimism.source_hash)) =>
        CallerBalance = DbCaller.balance + TxMint - L1Cost - OperatorFee - BaseDeduction

(* C13 amended: the subtractions saturate and the mint wraps: the caller       *)
(* balance equals max(0, ((b + mint) mod 2^256) - base_deduction - l1_cost -   *)
(* operator_fee_charge); it is the exact difference when b + mint fits U256    *)
(* and covers the three deductions.                                            *)
C13_SaturatingDeduction ==
    (Deducted /\ IsNone(env.tx.optimism.source_hash)) =>
        /\ CallerBalance =
              Max0(((DbCaller.balance + TxMint) % (U256_MAX + 1))
                   - BaseDeduction - L1Cost - OperatorFee)
        /\ ( /\ DbCaller.balance + TxMint <= U256_MAX
             /\ DbCaller.balance + TxMint >= BaseDeduction + L1Cost + OperatorFee )
              => CallerBalance =
                    DbCaller.balance + TxMint - L1Cost - OperatorFee - BaseDeduction

C13_Witness ==
    /\ Deducted
    /\ IsNone(env.tx.optimism.source_hash)
    /\ IsSome(env.tx.optimism.mint)
    /\ L1Cost > 0
    /\ OperatorFee > 0
    /\ BaseDeduction > 0
    /\ CallerBalance > 0
    /\ CallerBalance = DbCaller.balance + TxMint - L1Cost - OperatorFee - BaseDeduction

\* The frame's gas now and as last_frame_return found it on entry.
GasNow == Unwrap(frame).gas
GasOnEntry == Unwrap(frame).saved
Outcome == Unwrap(frame).result

\* Gas is reported as normal: a non-deposit, or any transaction with Regolith.
NormalGas == IsNone(env.tx.optimism.source_hash) \/ RegolithActive

RefundQuotient == IF Enabled(spec_id, "LONDON") THEN 5 ELSE 2

(* C14: for an Ok outcome of a non-deposit (any fork) or of any transaction    *)
(* with Regolith, after last_frame_return the gas has limit = tx.gas_limit,    *)
(* remaining and refunded as the frame had them on entry, and so spent =       *)
(* tx.gas_limit - remaining.                                                   *)
C14_OkRestoresGas ==
    (last = "last_frame_return" /\ Outcome \in ReturnOk /\ NormalGas) =>
        /\ GasNow.limit = env.tx.gas_limit
        /\ GasNow.remaining = GasOnEntry.remaining
        /\ GasNow.refunded = GasOnEntry.refunded
        /\ spent(GasNow) = env.tx.gas_limit - GasOnEntry.remaining

C14_Witness ==
    /\ last = "last_frame_return"
    /\ Outcome \in ReturnOk
    /\ IsSome(env.tx.optimism.source_hash)
    /\ RegolithActive
    /\ GasOnEntry.remaining > 0
    /\ GasOnEntry.refunded > 0
    /\ GasNow.refunded = GasOnEntry.refunded
    /\ spent(GasNow) < env.tx.gas_limit

(* C15 as stated: for a Revert outcome of a non-deposit or of any transaction  *)
(* with Regolith, after last_frame_return and refund the gas has remaining as  *)
(* on entry, spent = tx.gas_limit - remaining and refunded = 0.                *)
C15_RevertNoRefund ==
    (last = "refund" /\ Outcome \in ReturnRevert /\ NormalGas) =>
        /\ GasNow.remaining = GasOnEntry.remaining
        /\ spent(GasNow) = env.tx.gas_limit - GasOnEntry.remaining
        /\ GasNow.refunded = 0

(* C15 amended: remaining and spent as stated; the refund the frame recorded   *)
(* is dropped, and refunded is the EIP-7702 refund alone, capped at            *)
(* spent / 5 (spent / 2 before London) unless cfg disables refunds: it is 0    *)
(* when there is no EIP-7702 refund.                                           *)
C15_RevertDropsFrameRefund ==
    (last = "refund" /\ Outcome \in ReturnRevert /\ NormalGas) =>
        /\ GasNow.remaining = GasOnEntry.remaining
        /\ spent(GasNow) = env.tx.gas_limit - GasOnEntry.remaining
        /\ GasNow.refunded =
              IF env.cfg.gas_refund_disabled THEN eip7702_refund
              ELSE Min(eip7702_refund, spent(GasNow) \div RefundQuotient)
        /\ eip7702_refund = 0 => GasNow.refunded = 0

C15_Witness ==
    /\ last = "refund"
    /\ Outcome \in ReturnRevert
    /\ IsNone(env.tx.optimism.source_hash)
    /\ GasOnEntry.remaining > 0
    /\ GasOnEntry.refunded > 0
    /\ eip7702_refund = 0
    /\ GasNow.refunded = 0
    /\ spent(GasNow) = env.tx.gas_limit - GasOnEntry.remaining

(* C16: for a deposit before Regolith that is not a system transaction, for    *)
(* every outcome and every frame gas on entry, after last_frame_return and     *)
(* refund the gas has spent = tx.gas_limit, remaining = 0 and refunded = 0.    *)
C16_BedrockDepositFullySpent ==
    ( /\ last = "refund"
      /\ IsSome(env.tx.optimism.source_hash)
      /\ ~RegolithActive
      /\ env.tx.optimism.is_system_transaction # Some(TRUE) )
    => /\ spent(GasNow) = env.tx.gas_limit
       /\ GasNow.remaining = 0
       /\ GasNow.refunded = 0

C16_Witness ==
    /\ last = "refund"
    /\ IsSome(env.tx.optimism.source_hash)
    /\ ~RegolithActive
    /\ env.tx.optimism.is_system_transaction = Some(FALSE)
    /\ Outcome \in ReturnOk
    /\ GasOnEntry.remaining > 0
    /\ GasOnEntry.refunded > 0
    /\ spent(GasNow) = env.tx.gas_limit
    /\ GasNow.refunded = 0

(* C17: for an Ok outcome of a deposit before Regolith with                    *)
(* is_system_transaction = Some(true), after last_frame_return the gas has     *)
(* spent = 0, remaining = tx.gas_limit and refunded = 0, whatever the frame's  *)
(* remaining and refunded were.                                                *)
C17_SystemDepositZeroGas ==
    ( /\ last = "last_frame_return"
      /\ Outcome \in ReturnOk
      /\ IsSome(env.tx.optimism.source_hash)
      /\ ~RegolithActive
      /\ env.tx.optimism.is_system_transaction = Some(TRUE) )
    => /\ spent(GasNow) = 0
       /\ GasNow.remaining = env.tx.gas_limit
       /\ GasNow.refunded = 0

C17_Witness ==
    /\ last = "last_frame_return"
    /\ Outcome \in ReturnOk
    /\ IsSome(env.tx.optimism.source_hash)
    /\ ~RegolithActive
    /\ env.tx.optimism.is_system_transaction = Some(TRUE)
    /\ GasOnEntry.remaining < env.tx.gas_limit
    /\ GasOnEntry.refunded > 0
    /\ GasNow.remaining = env.tx.gas_limit

(* C18: for an Ok outcome of a non-deposit (or of a deposit with Regolith)     *)
(* with refunds not disabled by cfg, after last_frame_return and refund the    *)
(* gas has refunded = min(recorded refund, spent / 5) when London is active    *)
(* and min(recorded refund, spent / 2) otherwise, the recorded refund being    *)
(* the frame's refund plus the EIP-7702 refund.                                *)
C18_RefundCap ==
    ( /\ last = "refund"
      /\ Outcome \in ReturnOk
      /\ NormalGas
      /\ ~env.cfg.gas_refund_disabled )
    => GasNow.refunded =
          Min(GasOnEntry.refunded + eip7702_refund,
              (env.tx.gas_limit - GasOnEntry.remaining) \div RefundQuotient)

\* Before London the cap is spent / 2: a refund that spent / 5 would cut is kept.
C18_Witness ==
    /\ last = "refund"
    /\ Outcome \in ReturnOk
    /\ IsNone(env.tx.optimism.source_hash)
    /\ ~env.cfg.gas_refund_disabled
    /\ ~Enabled(spec_id, "LONDON")
    /\ GasOnEntry.refunded > (env.tx.gas_limit - GasOnEntry.remaining) \div 5
    /\ GasNow.refunded = GasOnEntry.refunded

\* What an account of the journal holds: nothing when it was never loaded.
JournalBalance(a) == IF IsSome(journal[a]) THEN Unwrap(journal[a]).balance ELSE 0

\* The fee path of a non-deposit ran to its end: reward_beneficiary returned Ok.
Rewarded ==
    /\ last = "reward_beneficiary"
    /\ IsOk(ret)
    /\ IsNone(env.tx.optimism.source_hash)

UsedGas == spent(GasNow) - GasNow.refunded

\* The operator fee returned to the caller by reimburse_caller.
OperatorFeeRefund == operator_fee_refund(db.l1block, GasNow, spec_id)

(* C19: for a non-deposit that runs deduct_caller, execution,                  *)
(* last_frame_return, refund, reimburse_caller and reward_beneficiary, the     *)
(* credit of the three fee vaults equals the fees collected from the caller    *)
(* (L1 cost, base fee of the gas used, operator fee charged up front) less the *)
(* operator fee refund returned to the caller; the operator vault receives     *)
(* exactly the operator fee charged up front minus the operator fee refunded,  *)
(* and the caller has paid the L1 cost and the operator fee less that refund   *)
(* on top of the gas.                                                          *)
C19_VaultConservation ==
    Rewarded =>
        /\ JournalBalance(OPERATOR_FEE_RECIPIENT) = OperatorFee - OperatorFeeRefund
        /\ JournalBalance(L1_FEE_RECIPIENT) = L1Cost
        /\ JournalBalance(L1_FEE_RECIPIENT) + JournalBalance(BASE_FEE_RECIPIENT)
             + JournalBalance(OPERATOR_FEE_RECIPIENT)
           = L1Cost + env.block.basefee * UsedGas + OperatorFee - OperatorFeeRefund
        /\ CallerBalance =
              DbCaller.balance + TxMint - BaseDeduction - L1Cost - OperatorFee
              + env.tx.gas_price * GasNow.remaining + OperatorFeeRefund

C19_Witness ==
    /\ Rewarded
    /\ L1Cost > 0
    /\ OperatorFeeRefund > 0
    /\ GasNow.refunded > 0
    /\ JournalBalance(OPERATOR_FEE_RECIPIENT) > 0
    /\ JournalBalance(OPERATOR_FEE_RECIPIENT) < OperatorFee
    /\ JournalBalance(BASE_FEE_RECIPIENT) > 0

\* The accounts the non-deposit fee path pays.
FeeAccounts == {Coinbase, L1_FEE_RECIPIENT, BASE_FEE_RECIPIENT, OPERATOR_FEE_RECIPIENT}

DepositRun == IsSome(env.tx.optimism.source_hash)

(* C20: in every pipeline run of a deposit the non-deposit fee path never      *)
(* executes: deduct_caller subtracts no L1 cost and no operator fee,           *)
(* reimburse_caller adds no operator fee refund, reward_beneficiary credits    *)
(* nothing, and the coinbase and the three fee vaults stay unloaded,           *)
(* untouched and with unchanged balances.                                      *)
C20_DepositSkipsFeePath ==
    /\ [](DepositRun => \A a \in FeeAccounts : journal[a] = None)
    /\ []((DepositRun /\ Deducted) =>
            CallerBalance =
               Max0(((DbCaller.balance + TxMint) % (U256_MAX + 1)) - BaseDeduction))
    /\ [][(DepositRun /\ pc = "reimburse_caller" /\ IsOk(ret')) =>
            Unwrap(journal'[Caller]).balance =
               Min(CallerBalance + env.tx.gas_price * GasNow.remaining, U256_MAX)]_vars
    /\ [][(DepositRun /\ pc = "reward_beneficiary") =>
            (ret' = OkUnit /\ journal' = journal)]_vars

C20_Witness ==
    /\ DepositRun
    /\ last = "reward_beneficiary"
    /\ ret = OkUnit
    /\ IsSome(env.tx.optimism.enveloped_tx)
    /\ Unwrap(env.tx.optimism.enveloped_tx) > 0
    /\ RegolithActive
    /\ Outcome \in ReturnOk
    /\ UsedGas > 0
    /\ \A a \in FeeAccounts : journal[a] = None

\* The verdict of validate_tx_against_state for a non-deposit whose database
\* reads succeed, check by check in the order of the claim.
CallerHasCode == DbCaller.code \notin {"empty", "eip7702"}

ExpectedStateVerdict ==
    IF ~env.cfg.eip3607_disabled /\ CallerHasCode
    THEN Err("Transaction", "RejectCallerWithCode")
    ELSE IF IsSome(env.tx.nonce) /\ Unwrap(env.tx.nonce) > DbCaller.nonce
    THEN ErrNonce("NonceTooHigh", Unwrap(env.tx.nonce), DbCaller.nonce)
    ELSE IF IsSome(env.tx.nonce) /\ Unwrap(env.tx.nonce) < DbCaller.nonce
    THEN ErrNonce("NonceTooLow", Unwrap(env.tx.nonce), DbCaller.nonce)
    ELSE IF IsNone(env.tx.optimism.enveloped_tx)
    THEN Err("Custom", "[OPTIMISM] Failed to load enveloped transaction.")
    ELSE IF Total > U256_MAX
    THEN Err("Transaction", "OverflowPaymentInTransaction")
    ELSE IF Total > DbCaller.balance /\ ~env.cfg.balance_check_disabled
    THEN ErrLackOfFund(Total, DbCaller.balance)
    ELSE OkUnit

(* C21: for a non-deposit, validate_tx_against_state returns the error of the  *)
(* first failing check in the order RejectCallerWithCode, NonceTooHigh /       *)
(* NonceTooLow {tx, state}, the Custom missing-envelope error,                 *)
(* OverflowPaymentInTransaction, LackOfFundForMaxFee; a later check's error is *)
(* never returned when an earlier check fails, and Ok only when all pass.      *)
C21_FirstFailingCheck ==
    (StateValidated /\ ~(IsErr(ret) /\ ret.class = "Database")) =>
        ret = ExpectedStateVerdict

\* Every check fails at once and the first one is reported.
C21_Witness ==
    /\ StateValidated
    /\ ~env.cfg.eip3607_disabled
    /\ CallerHasCode
    /\ IsSome(env.tx.nonce)
    /\ Unwrap(env.tx.nonce) # DbCaller.nonce
    /\ IsNone(env.tx.optimism.enveloped_tx)
    /\ env.tx.gas_limit * env.tx.gas_price + env.tx.value > U256_MAX
    /\ ret = Err("Transaction", "RejectCallerWithCode")

\* A fee step of a non-deposit: the slots that read l1_block_info.
FeeSlots == {"deduct_caller", "reimburse_caller", "reward_beneficiary"}

MissingL1Errors ==
    { Panic("L1BlockInfo should be loaded"),
      Err("Custom", "[OPTIMISM] Failed to load L1 block information."),
      Err("Custom", "[OPTIMISM] Failed to load enveloped transaction.") }

(* C22: in every pipeline run in the fixed order, for a non-deposit,           *)
(* l1_block_info is Some and the envelope is present at every point where      *)
(* deduct_caller, reimburse_caller or reward_beneficiary reads them, for the   *)
(* first transaction and for every transaction after a clear; none of the      *)
(* three steps ends on a missing L1BlockInfo or envelope.                      *)
C22_L1LoadedBeforeUse ==
    /\ (pc \in FeeSlots /\ IsNone(env.tx.optimism.source_hash)) =>
          /\ IsSome(l1_block_info)
          /\ l1_block_info = Some(db.l1block)
          /\ IsSome(env.tx.optimism.enveloped_tx)
    /\ (last \in FeeSlots /\ IsNone(env.tx.optimism.source_hash)) =>
          ret \notin MissingL1Errors

C22_Witness ==
    /\ last = "reward_beneficiary"
    /\ IsNone(env.tx.optimism.source_hash)
    /\ IsOk(ret)
    /\ IsSome(l1_block_info)
    /\ IsSome(journal[OPERATOR_FEE_RECIPIENT])

\* The caller balance validate_tx_against_state leaves in the journal: the
\* database balance, raised to the total under the override.
ValidatedBalance ==
    IF env.cfg.balance_check_disabled /\ Total > DbCaller.balance
    THEN Total ELSE DbCaller.balance

\* The balance after the mint and after deduct_caller_inner.
Minted == (ValidatedBalance + TxMint) % (U256_MAX + 1)
AfterInner == Max0(Minted - BaseDeduction)

\* A non-deposit that passed validation stands before deduct_caller, or has
\* been through it.
ValidatedBeforeCharge ==
    /\ IsNone(env.tx.optimism.source_hash)
    /\ pc = "deduct_caller"
    /\ last = "validate_tx_against_state"
    /\ IsOk(ret)

ValidatedCharged == IsNone(env.tx.optimism.source_hash) /\ Deducted

(* C23 as stated: for a non-deposit for which validate_tx_against_state        *)
(* returned Ok, in the following deduct_caller the caller balance is at least  *)
(* the amount subtracted at each saturating subtraction (L1 cost, then         *)
(* operator fee): nothing clamps at zero and the caller is charged the full    *)
(* l1_cost + operator_fee_charge.                                              *)
C23_NoClamp ==
    /\ ValidatedBeforeCharge =>
          /\ CallerBalance = ValidatedBalance
          /\ AfterInner >= L1Cost
          /\ AfterInner - L1Cost >= OperatorFee
    /\ ValidatedCharged =>
          CallerBalance = AfterInner - L1Cost - OperatorFee

(* C23 amended: the same, for a non-deposit whose validated balance plus mint  *)
(* fits U256 (always so without a mint): then the balance covers the L1 cost   *)
(* and the operator fee at their subtractions and the caller is charged        *)
(* exactly base deduction + l1_cost + operator_fee_charge.                     *)
C23_NoClampUnlessMintWraps ==
    /\ ValidatedBeforeCharge => CallerBalance = ValidatedBalance
    /\ (ValidatedBeforeCharge /\ ValidatedBalance + TxMint <= U256_MAX) =>
          /\ AfterInner >= L1Cost
          /\ AfterInner - L1Cost >= OperatorFee
    /\ (ValidatedCharged /\ ValidatedBalance + TxMint <= U256_MAX) =>
          CallerBalance =
              ValidatedBalance + TxMint - BaseDeduction - L1Cost - OperatorFee

\* The override raised the balance to the total and the two fees were charged
\* in full: nothing is left.
C23_Witness ==
    /\ ValidatedCharged
    /\ env.cfg.balance_check_disabled
    /\ Total > DbCaller.balance
    /\ L1Cost > 0
    /\ OperatorFee > 0
    /\ CallerBalance = 0

(* C24: for a Halt-family outcome, for every transaction kind and fork, after  *)
(* last_frame_return the gas has limit = tx.gas_limit, remaining = 0, spent =  *)
(* tx.gas_limit and refunded = 0, whatever the frame's gas was on entry.       *)
C24_HaltFullySpent ==
    (last = "last_frame_return" /\ Outcome \in ReturnHalt) =>
        /\ GasNow.limit = env.tx.gas_limit
        /\ GasNow.remaining = 0
        /\ spent(GasNow) = env.tx.gas_limit
        /\ GasNow.refunded = 0

C24_Witness ==
    /\ last = "last_frame_return"
    /\ Outcome \in ReturnHalt
    /\ NormalGas
    /\ GasOnEntry.remaining > 0
    /\ GasOnEntry.refunded > 0
    /\ GasNow.remaining = 0
    /\ GasNow.refunded = 0

\* What the database holds for an account: nothing when it is absent.
DbBalance(a) == UnwrapOr(db.accounts[a], DefaultInfo).balance

IsTouched(a) == IsSome(journal[a]) /\ Unwrap(journal[a]).touched

OperatorFeeOnUsed ==
    operator_fee_charge(db.l1block, Unwrap(env.tx.optimism.enveloped_tx), UsedGas, spec_id)

(* C25: for a non-deposit, after reward_beneficiary with used = spent -        *)
(* refunded, the balance of L1_FEE_RECIPIENT has increased by exactly l1_cost  *)
(* (the value deduct_caller subtracts from the caller), that of                *)
(* BASE_FEE_RECIPIENT by block.basefee * used and that of                      *)
(* OPERATOR_FEE_RECIPIENT by operator_fee_charge(envelope, used), and all      *)
(* three accounts are marked touched, even when the credited amount is zero.   *)
C25_VaultCredits ==
    Rewarded =>
        /\ UsedGas = env.tx.gas_limit - GasNow.remaining - GasNow.refunded
        /\ JournalBalance(L1_FEE_RECIPIENT) = DbBalance(L1_FEE_RECIPIENT) + L1Cost
        /\ JournalBalance(BASE_FEE_RECIPIENT) =
              DbBalance(BASE_FEE_RECIPIENT) + env.block.basefee * UsedGas
        /\ JournalBalance(OPERATOR_FEE_RECIPIENT) =
              DbBalance(OPERATOR_FEE_RECIPIENT) + OperatorFeeOnUsed
        /\ IsTouched(L1_FEE_RECIPIENT)
        /\ IsTouched(BASE_FEE_RECIPIENT)
        /\ IsTouched(OPERATOR_FEE_RECIPIENT)

\* Before Isthmus the operator vault is credited zero and touched all the same.
C25_Witness ==
    /\ Rewarded
    /\ OperatorFeeOnUsed = 0
    /\ IsTouched(OPERATOR_FEE_RECIPIENT)
    /\ DbBalance(OPERATOR_FEE_RECIPIENT) > 0
    /\ JournalBalance(OPERATOR_FEE_RECIPIENT) = DbBalance(OPERATOR_FEE_RECIPIENT)
    /\ L1Cost > 0
    /\ GasNow.refunded > 0
    /\ JournalBalance(L1_FEE_RECIPIENT) > DbBalance(L1_FEE_RECIPIENT)
    /\ JournalBalance(BASE_FEE_RECIPIENT) > DbBalance(BASE_FEE_RECIPIENT)

\* reimburse_caller ran Ok on a context whose journal was empty before the
\* post-execution handlers were called.
Reimbursed == last = "reimburse_caller" /\ IsOk(ret)

BaseReimbursement == env.tx.gas_price * GasNow.remaining

(* C26: reimburse_caller credits the caller with the base reimbursement        *)
(* (remaining * effective gas price) for every transaction, and with           *)
(* operator_fee_refund(gas) in addition exactly when the transaction is not a  *)
(* deposit (both with saturating addition); the operator refund never exceeds  *)
(* the operator fee charged in deduct_caller; a deposit's caller balance       *)
(* changes only by the base reimbursement.                                     *)
C26_ReimburseCaller ==
    /\ (Reimbursed /\ DepositRun) =>
          CallerBalance = Min(DbCaller.balance + BaseReimbursement, U256_MAX)
    /\ (Reimbursed /\ ~DepositRun) =>
          /\ CallerBalance =
                Min(DbCaller.balance + BaseReimbursement + OperatorFeeRefund, U256_MAX)
          /\ OperatorFeeRefund <= OperatorFee
          /\ OperatorFeeRefund =
                OperatorFee - operator_fee_charge(
                                  db.l1block, Unwrap(env.tx.optimism.enveloped_tx),
                                  env.tx.gas_limit - GasNow.remaining - GasNow.refunded,
                                  spec_id)

C26_Witness ==
    /\ Reimbursed
    /\ ~DepositRun
    /\ GasNow.remaining > 0
    /\ OperatorFeeRefund > 0
    /\ OperatorFeeRefund < OperatorFee
    /\ CallerBalance = DbCaller.balance + BaseReimbursement + OperatorFeeRefund

(* C27: end returns its input unchanged when the input is Ok, when the error   *)
(* is not Transaction-class, or when the transaction is not a deposit; in      *)
(* these cases nothing it returns comes from the database (whether a read of   *)
(* the database would succeed or fail makes no difference) and it builds no    *)
(* state, so a non-deposit transaction error reaches the driver as the same    *)
(* error.                                                                      *)
C27_EndPassThrough ==
    ( /\ EndRan
      /\ \/ IsOk(EndInput)
         \/ (IsErr(EndInput) /\ EndInput.class # "Transaction")
         \/ ~is_deposit(env) )
    => /\ EndResult = EndInput
       /\ ret = EndInput
       /\ IsErr(EndInput) => IsErr(EndResult)

\* A Transaction-class error of a non-deposit, with a database that fails.
C27_Witness ==
    /\ EndRan
    /\ ~is_deposit(env)
    /\ IsErr(EndInput)
    /\ EndInput.class = "Transaction"
    /\ ~db_basic_ok
    /\ IsSome(env.tx.optimism.mint)
    /\ EndResult = EndInput

\* Refunds are disabled: by cfg, or for a deposit before Regolith.
RefundsDisabled ==
    env.cfg.gas_refund_disabled \/ (IsSome(env.tx.optimism.source_hash) /\ ~RegolithActive)

(* C28: refund first adds the EIP-7702 refund to gas.refunded and then applies *)
(* the final cap only when refunds are not disabled; when they are disabled    *)
(* (cfg gas_refund_disabled, or a deposit before Regolith) the cap is skipped  *)
(* and gas.refunded is left at the recorded value, so for a deposit before     *)
(* Regolith refunded after refund equals the eip7702_refund argument and is 0  *)
(* only when that argument is 0.                                               *)
C28_RefundDisabledSkipsCap ==
    /\ [][(pc = "refund" /\ last' = "refund") =>
            /\ Unwrap(frame').gas.limit = GasNow.limit
            /\ Unwrap(frame').gas.remaining = GasNow.remaining
            /\ Unwrap(frame').gas.refunded =
                  IF RefundsDisabled
                  THEN GasNow.refunded + eip7702_refund
                  ELSE Min(GasNow.refunded + eip7702_refund,
                           spent(GasNow) \div RefundQuotient)]_vars
    /\ []((last = "refund" /\ IsSome(env.tx.optimism.source_hash) /\ ~RegolithActive) =>
            /\ GasNow.refunded = eip7702_refund
            /\ GasNow.refunded = 0 <=> eip7702_refund = 0)

\* A deposit before Regolith keeps a refund argument above the cap.
C28_Witness ==
    /\ last = "refund"
    /\ IsSome(env.tx.optimism.source_hash)
    /\ ~RegolithActive
    /\ ~env.cfg.gas_refund_disabled
    /\ eip7702_refund > spent(GasNow) \div RefundQuotient
    /\ GasNow.refunded = eip7702_refund

\* The storage of the host has no entry.
StorageEmpty == \A i \in Indexes : IsNone(host.storage[i])

(* C29: after DummyHost::clear, following any sequence of sstore, sload,       *)
(* tstore and log calls, storage and log are empty: the next sload of any      *)
(* index returns 0 and reports cold, the next sstore reports cold with present *)
(* value 0; env and transient_storage are left unchanged, so tload still       *)
(* returns the values stored before the clear.                                 *)
C29_ClearKeepsEnvAndTransient ==
    /\ [](host_ret.op = "clear" => (StorageEmpty /\ host.log = << >>))
    /\ [][host_ret'.op = "clear" =>
            /\ host'.env = host.env
            /\ host'.transient_storage = host.transient_storage]_vars
    /\ [][(host_ret.op = "clear" /\ host_ret'.op = "sload") =>
            (host_ret'.value = 0 /\ host_ret'.is_cold)]_vars
    /\ [][(host_ret.op = "clear" /\ host_ret'.op = "sstore") =>
            (host_ret'.value = 0 /\ host_ret'.is_cold)]_vars
    /\ [][(host_ret.op = "clear" /\ host_ret'.op = "tload") =>
            host_ret'.value = UnwrapOr(host.transient_storage[host_ret'.index], 0)]_vars

\* clear dropped stored values and logs and left a transient value in place.
C29_Witness ==
    /\ host_ret.op = "clear"
    /\ host_ret.dropped.storage > 0
    /\ host_ret.dropped.log > 0
    /\ \E i \in Indexes : host.transient_storage[i] = Some(1)
    /\ host.env # DefaultEnv
    /\ StorageEmpty
    /\ host.log = << >>

====
